---------------------------- MODULE Spec2Model ----------------------------
(***************************************************************************)
(* A model of civic-scraper's extraction and normalization engine:        *)
(*   - the Granicus legacy-layout scrapers (platforms/granicus/base.py,   *)
(*     type1.py .. type4.py) and their dispatch,                          *)
(*   - the Granicus Site (RSS entries and HTML list items),               *)
(*   - the CivicClerk, Legistar and CivicPlus sites,                      *)
(*   - the scrape signatures of the platform Site classes,                 *)
(*   - the size/type filters of scrape (base/site.py, legistar/site.py),   *)
(*   - Runner.scrape and its URL dispatch (runner.py),                     *)
(*   - scrape on a failing network and on malformed records,               *)
(*   - the place and state the Site constructors store,                    *)
(*   - CivicClerk endpoint discovery, its API stage and events(),          *)
(*   - utils.parse_datetime_formats with its timezone argument,            *)
(*   - the time half of _parse_date_time on written times.                 *)
(*                                                                         *)
(* Texts are sequences of tokens (words, numbers with their digit width,   *)
(* punctuation), so that cleaning, splitting and format matching are      *)
(* computed and can fail.  The wall clock, uuid4 and the availability of  *)
(* python-dateutil are inputs of the environment.                          *)
(***************************************************************************)
EXTENDS Integers, Sequences, FiniteSets, TLC

VARIABLES
    comp,             \* which component this behaviour exercises
    now,              \* the wall clock (datetime.now())
    dateutil_ok,      \* python-dateutil can be imported (base.py:102)
    extracted_items,  \* raw records handed to _transform_to_standard_format
    committee_input,  \* committee_name_input / panel_name of the call
    std_runs,         \* standardized lists returned, one per call
    raw_content,      \* what the site serves: feed entries, list items,
                      \* API/DOM/calendar payloads, events, metadata rows;
                      \* for CivicClerk discovery, at the latest call
    asset_runs,       \* the Assets returned, one list per scrape
    html_content,     \* the page handed to the legacy-layout scrapers
    panel_name,       \* the panel name of the call (<<>> for None)
    attempts,         \* direct calls of extract_and_process_meetings
    tried,            \* the strategies the dispatch has invoked, in order
    next_strategy,    \* position of the dispatch in its strategy list
    dispatch_result,  \* what the dispatch returns (<<>> while empty)
    scrape_calls,     \* calls of Site.scrape as bound to its signature
    request,          \* the arguments of the call under study and what its
                      \* environment (network, sites) answers
    outcomes,         \* what each call returned or raised, one per call
    asset_collection, \* the collection Runner.scrape is accumulating
    runner_result     \* what Runner.scrape returned or raised (<<>> before)

vars == <<comp, now, dateutil_ok, extracted_items, committee_input, std_runs,
          raw_content, asset_runs, html_content, panel_name, attempts, tried,
          next_strategy, dispatch_result, scrape_calls, request, outcomes,
          asset_collection, runner_result>>

(***************************************************************************)
(* Bounds of the model.                                                    *)
(***************************************************************************)
MaxItems == 2      \* raw records per batch
MaxRuns  == 2      \* calls of one operation on the same input
MaxCalls == 1      \* direct calls of a layout strategy on one page

(***************************************************************************)
(* Generic helpers.                                                        *)
(***************************************************************************)
NULL == "NULL"                       \* Python None, for string-valued fields

Min(a, b) == IF a <= b THEN a ELSE b

RECURSIVE SeqOfLen(_, _)
\* all sequences over S of length exactly n
SeqOfLen(S, n) ==
    IF n = 0 THEN {<<>>}
    ELSE {Append(s, x) : s \in SeqOfLen(S, n - 1), x \in S}

RECURSIVE SeqUpTo(_, _)
\* all sequences over S of length at most n
SeqUpTo(S, n) ==
    IF n = 0 THEN {<<>>} ELSE SeqOfLen(S, n) \cup SeqUpTo(S, n - 1)

RECURSIVE FilterSeq(_, _)
FilterSeq(s, keep) ==
    IF s = <<>> THEN <<>>
    ELSE IF keep[1] THEN <<s[1]>> \o FilterSeq(Tail(s), Tail(keep))
         ELSE FilterSeq(Tail(s), Tail(keep))

(***************************************************************************)
(* Tokens of a text.                                                       *)
(***************************************************************************)
Wd(s)     == [k |-> "w", s |-> s,  n |-> 0, w |-> 0]   \* a word
Num(n, w) == [k |-> "n", s |-> "", n |-> n, w |-> w]   \* w digits, value n
Pn(s)     == [k |-> "p", s |-> s,  n |-> 0, w |-> 0]   \* punctuation, space
SP        == Pn(" ")
NBSP      == Pn("nbsp")                                 \* '\xa0'

MonthFull == <<"January", "February", "March", "April", "May", "June", "July",
               "August", "September", "October", "November", "December">>
MonthAbbr == <<"Jan", "Feb", "Mar", "Apr", "May", "Jun", "Jul",
               "Aug", "Sep", "Oct", "Nov", "Dec">>
WeekdayFull == {"Monday", "Tuesday", "Wednesday", "Thursday", "Friday",
                "Saturday", "Sunday"}
Meridiem == {"AM", "PM", "am", "pm"}

IndexIn(seq, x) == IF \E i \in DOMAIN seq : seq[i] = x
                   THEN CHOOSE i \in DOMAIN seq : seq[i] = x
                   ELSE 0

(***************************************************************************)
(* Calendar dates.  NoDate stands for the empty string / None.             *)
(***************************************************************************)
Date(y, m, d) == [y |-> y, m |-> m, d |-> d]
NoDate == Date(0, 0, 0)

IsLeap(y) == (y % 4 = 0 /\ y % 100 # 0) \/ y % 400 = 0
DaysIn(y, m) ==
    IF m = 2 THEN (IF IsLeap(y) THEN 29 ELSE 28)
    ELSE IF m \in {4, 6, 9, 11} THEN 30 ELSE 31
\* datetime(y, m, d) is constructible (otherwise ValueError)
ValidDate(y, m, d) ==
    /\ y \in 1..9999
    /\ m \in 1..12
    /\ d \in 1..DaysIn(y, m)

(***************************************************************************)
(* Text cleaning of _parse_date_time (base.py:88-90).                      *)
(***************************************************************************)
RECURSIVE StripLeft(_)
StripLeft(t) == IF t # <<>> /\ t[1] = SP THEN StripLeft(Tail(t)) ELSE t

RECURSIVE StripRight(_)
StripRight(t) ==
    IF t # <<>> /\ t[Len(t)] = SP THEN StripRight(SubSeq(t, 1, Len(t) - 1))
    ELSE t

\* str.strip()
Strip(t) == StripRight(StripLeft(t))

\* str.replace('\xa0', ' ')
ReplaceNbsp(t) == [i \in DOMAIN t |-> IF t[i] = NBSP THEN SP ELSE t[i]]

\* re.sub(r'\s*-\s*', ' ', s) followed by re.sub(r'\s+', ' ', s): every dash
\* becomes a space and every run of spaces becomes one space
DashToSpace(t) == [i \in DOMAIN t |-> IF t[i] = Pn("-") THEN SP ELSE t[i]]

CollapseSpaces(t) ==
    FilterSeq(t, [i \in DOMAIN t |-> ~(t[i] = SP /\ i > 1 /\ t[i - 1] = SP)])

CleanDateStr(date_str) ==
    CollapseSpaces(DashToSpace(Strip(ReplaceNbsp(date_str))))

(***************************************************************************)
(* The time embedded in a date string (base.py:93-98):                     *)
(* re.search(r'(\d{1,2}[:\.]\d{2}\s*(?:AM|PM|am|pm)?)', clean_date_str).   *)
(* The text is already whitespace-collapsed, so \s* is at most one space.   *)
(***************************************************************************)
IsTimeCore(t, i) ==
    /\ i + 2 <= Len(t)
    /\ t[i].k = "n" /\ t[i].w \in 1..2
    /\ t[i + 1] \in {Pn(":"), Pn(".")}
    /\ t[i + 2].k = "n" /\ t[i + 2].w = 2

\* number of tokens of the match that starts at i
TimeMatchLen(t, i) ==
    LET sp  == IF i + 3 <= Len(t) /\ t[i + 3] = SP THEN 1 ELSE 0
        j   == i + 3 + sp
        mer == IF j <= Len(t) /\ t[j].k = "w" /\ t[j].s \in Meridiem
               THEN 1 ELSE 0
    IN 3 + sp + mer

HasTimeInDate(t) == \E i \in DOMAIN t : IsTimeCore(t, i)

FirstTimeIdx(t) ==
    CHOOSE i \in DOMAIN t :
        IsTimeCore(t, i) /\ \A j \in 1..(i - 1) : ~IsTimeCore(t, j)

TimeInDate(t) ==
    LET i == FirstTimeIdx(t) IN SubSeq(t, i, i + TimeMatchLen(t, i) - 1)

\* clean_date_str.replace(match, '').strip()
RemoveTimeInDate(t) ==
    LET i == FirstTimeIdx(t)
        n == TimeMatchLen(t, i)
    IN Strip(SubSeq(t, 1, i - 1) \o SubSeq(t, i + n, Len(t)))

(***************************************************************************)
(* dateutil.parser.parse(clean_date_str, ignoretz=True) (base.py:102-105). *)
(* Fields the text does not give are taken from the default, which is      *)
(* today's date: that is how dateutil completes "January 15" or "15".      *)
(* Unknown words raise ValueError.  Texts made only of a weekday name are  *)
(* outside the modelled input language.                                    *)
(***************************************************************************)
MonthOfWord(s) ==
    IF IndexIn(MonthFull, s) # 0 THEN IndexIn(MonthFull, s)
    ELSE IndexIn(MonthAbbr, s)

WordsOf(t)   == FilterSeq(t, [i \in DOMAIN t |-> t[i].k = "w"])
NumbersOf(t) == FilterSeq(t, [i \in DOMAIN t |-> t[i].k = "n"])

\* dateutil's convertyear: a two-digit year is placed within 50 years of today
Year2(yy, today) ==
    LET y == yy + (today.y \div 100) * 100
    IN IF y >= today.y + 50 THEN y - 100
       ELSE IF y < today.y - 50 THEN y + 100 ELSE y

YearOfNum(tok, today) == IF tok.w <= 2 THEN Year2(tok.n, today) ELSE tok.n

CheckedDate(y, m, d) == IF ValidDate(y, m, d) THEN Date(y, m, d) ELSE NoDate

DateutilParse(t, today) ==
    LET ws     == WordsOf(t)
        ns     == NumbersOf(t)
        months == FilterSeq(ws, [i \in DOMAIN ws |-> MonthOfWord(ws[i].s) # 0])
        known  == \A i \in DOMAIN ws :
                      MonthOfWord(ws[i].s) # 0 \/ ws[i].s \in WeekdayFull
        punct  == \A i \in DOMAIN t :
                      t[i].k = "p" => t[i].s \in {" ", ",", "/", "."}
        clampd(y, m) == Min(today.d, DaysIn(y, m))
    IN IF ~known \/ ~punct \/ Len(months) > 1 \/ (Len(months) = 0 /\ ns = <<>>)
       THEN NoDate
       ELSE IF Len(months) = 1
       THEN LET mo == MonthOfWord(months[1].s)
            IN CASE Len(ns) = 0 -> CheckedDate(today.y, mo, clampd(today.y, mo))
                 [] Len(ns) = 1 /\ ns[1].w <= 2 ->
                        CheckedDate(today.y, mo, ns[1].n)
                 [] Len(ns) = 1 /\ ns[1].w > 2 ->
                        CheckedDate(ns[1].n, mo, clampd(ns[1].n, mo))
                 [] Len(ns) = 2 /\ ns[1].w > 2 ->
                        CheckedDate(ns[1].n, mo, ns[2].n)
                 [] Len(ns) = 2 /\ ns[1].w <= 2 ->
                        CheckedDate(YearOfNum(ns[2], today), mo, ns[1].n)
                 [] OTHER -> NoDate
       ELSE CASE Len(ns) = 1 /\ ns[1].w <= 2 ->
                        CheckedDate(today.y, today.m, ns[1].n)
              [] Len(ns) = 2 /\ ns[1].w <= 2 /\ ns[2].w <= 2 ->
                        CheckedDate(today.y, ns[1].n, ns[2].n)
              [] Len(ns) = 3 /\ ns[1].w > 2 ->
                        CheckedDate(ns[1].n, ns[2].n, ns[3].n)
              [] Len(ns) = 3 /\ ns[1].w <= 2 /\ ns[1].n <= 12 ->
                        CheckedDate(YearOfNum(ns[3], today), ns[1].n, ns[2].n)
              [] Len(ns) = 3 /\ ns[1].w <= 2 /\ ns[1].n > 12 ->
                        CheckedDate(YearOfNum(ns[3], today), ns[2].n, ns[1].n)
              [] OTHER -> NoDate

(***************************************************************************)
(* datetime.strptime(clean_date_str, fmt) for the date directives.  A      *)
(* format is the sequence of its directives and literal characters.        *)
(***************************************************************************)
DirectiveMatches(f, tok) ==
    CASE f = "%B" -> tok.k = "w" /\ IndexIn(MonthFull, tok.s) # 0
      [] f = "%b" -> tok.k = "w" /\ IndexIn(MonthAbbr, tok.s) # 0
      [] f = "%A" -> tok.k = "w" /\ tok.s \in WeekdayFull
      [] f = "%d" -> tok.k = "n" /\ tok.w \in 1..2 /\ tok.n \in 1..31
      [] f = "%m" -> tok.k = "n" /\ tok.w \in 1..2 /\ tok.n \in 1..12
      [] f = "%Y" -> tok.k = "n" /\ tok.w = 4
      [] f = "%y" -> tok.k = "n" /\ tok.w = 2
      [] f = "%I" -> tok.k = "n" /\ tok.w \in 1..2 /\ tok.n \in 1..12
      [] f = "%H" -> tok.k = "n" /\ tok.w \in 1..2 /\ tok.n \in 0..23
      [] f = "%M" -> tok.k = "n" /\ tok.w \in 1..2 /\ tok.n \in 0..59
      [] f = "%S" -> tok.k = "n" /\ tok.w \in 1..2 /\ tok.n \in 0..61
      [] f = "%f" -> tok.k = "n" /\ tok.w \in 1..6
      [] f = "%p" -> tok.k = "w" /\ tok.s \in Meridiem
      [] OTHER    -> tok = Pn(f)

FormatMatches(t, fmt) ==
    /\ Len(t) = Len(fmt)
    /\ \A i \in DOMAIN fmt : DirectiveMatches(fmt[i], t[i])

\* the token matched by directive f, if the format has it (0 otherwise)
FieldIdx(fmt, f) == IndexIn(fmt, f)

\* strptime's %y: 69..99 are 19xx, 0..68 are 20xx
Year2Strptime(yy) == IF yy >= 69 THEN 1900 + yy ELSE 2000 + yy

\* the date strptime builds; fields a format lacks default to 1900-01-01
StrptimeDateFields(t, fmt) ==
    LET y == IF FieldIdx(fmt, "%Y") # 0 THEN t[FieldIdx(fmt, "%Y")].n
             ELSE IF FieldIdx(fmt, "%y") # 0
                  THEN Year2Strptime(t[FieldIdx(fmt, "%y")].n)
             ELSE 1900
        m == IF FieldIdx(fmt, "%m") # 0 THEN t[FieldIdx(fmt, "%m")].n
             ELSE IF FieldIdx(fmt, "%B") # 0
                  THEN IndexIn(MonthFull, t[FieldIdx(fmt, "%B")].s)
             ELSE IF FieldIdx(fmt, "%b") # 0
                  THEN IndexIn(MonthAbbr, t[FieldIdx(fmt, "%b")].s)
             ELSE 1
        d == IF FieldIdx(fmt, "%d") # 0 THEN t[FieldIdx(fmt, "%d")].n ELSE 1
    IN Date(y, m, d)

\* ValueError when the text does not match or the day is out of range
StrptimeOk(t, fmt) ==
    /\ FormatMatches(t, fmt)
    /\ LET f == StrptimeDateFields(t, fmt) IN ValidDate(f.y, f.m, f.d)

StrptimeDate(t, fmt) ==
    IF StrptimeOk(t, fmt) THEN StrptimeDateFields(t, fmt) ELSE NoDate

\* date_formats_to_try (base.py:110-121)
date_formats_to_try == <<
    <<"%B", " ", "%d", ",", " ", "%Y">>,
    <<"%b", " ", "%d", ",", " ", "%Y">>,
    <<"%m", "/", "%d", "/", "%Y">>,
    <<"%Y", "-", "%m", "-", "%d">>,
    <<"%A", ",", " ", "%B", " ", "%d", ",", " ", "%Y">>,
    <<"%b", ".", " ", "%d", ",", " ", "%Y">>,
    <<"%B", " ", "%d", " ", "%Y">>,
    <<"%b", " ", "%d", " ", "%Y">>,
    <<"%m", "-", "%d", "-", "%y">>,
    <<"%m", "/", "%d", "/", "%y">> >>

\* the loop "for fmt in formats: try strptime ... break": first match wins
FirstMatch(t, formats) ==
    IF \E i \in DOMAIN formats : StrptimeOk(t, formats[i])
    THEN CHOOSE i \in DOMAIN formats :
             StrptimeOk(t, formats[i])
             /\ \A j \in 1..(i - 1) : ~StrptimeOk(t, formats[j])
    ELSE 0

ManualDateParse(t) ==
    IF FirstMatch(t, date_formats_to_try) = 0 THEN NoDate
    ELSE StrptimeDate(t, date_formats_to_try[FirstMatch(t, date_formats_to_try)])

(***************************************************************************)
(* Times of day.  _parse_date_time's default is "00:00:00" (base.py:85).   *)
(***************************************************************************)
Time(h, m, s) == [h |-> h, m |-> m, s |-> s]
Midnight == Time(0, 0, 0)
NoTime == Time(99, 99, 99)            \* stands for "no format matched"

Pow10(k) == CASE k = 0 -> 1 [] k = 1 -> 10 [] k = 2 -> 100 [] k = 3 -> 1000
              [] OTHER -> 10000

RECURSIVE MergeDigits(_)
\* removing a character between two runs of digits, or of letters, joins them
MergeDigits(t) ==
    IF Len(t) < 2 THEN t
    ELSE IF t[1].k = "n" /\ t[2].k = "n"
         THEN MergeDigits(<<Num(t[1].n * Pow10(t[2].w) + t[2].n,
                                t[1].w + t[2].w)>> \o SubSeq(t, 3, Len(t)))
         ELSE IF t[1].k = "w" /\ t[2].k = "w"
         THEN MergeDigits(<<Wd(t[1].s \o t[2].s)>> \o SubSeq(t, 3, Len(t)))
         ELSE <<t[1]>> \o MergeDigits(Tail(t))

\* time_str.replace('.', '').replace('\xa0', ' ').strip()  (base.py:134)
CleanTimeStr(time_str) ==
    LET nodots == FilterSeq(time_str,
                            [i \in DOMAIN time_str |-> time_str[i] # Pn(".")])
    IN Strip(ReplaceNbsp(MergeDigits(nodots)))

\* the hour strptime returns from %I and %p
Hour12(h, mer) ==
    IF mer \in {"PM", "pm"} THEN (IF h = 12 THEN 12 ELSE h + 12)
    ELSE (IF h = 12 THEN 0 ELSE h)

\* "%I%M": strptime's regex gives %I the longest of 1[0-2], 0[1-9], [1-9]
\* that still leaves a minute; both fields come from one run of digits
SplitIM(tok) ==
    CASE tok.w = 4 /\ tok.n \div 100 \in 1..12 /\ tok.n % 100 <= 59 ->
             <<tok.n \div 100, tok.n % 100>>
      [] tok.w = 3 /\ tok.n \div 100 \in 1..9 /\ tok.n % 100 <= 59 ->
             <<tok.n \div 100, tok.n % 100>>
      [] tok.w = 2 /\ tok.n \div 10 \in 1..9 ->
             <<tok.n \div 10, tok.n % 10>>
      [] OTHER -> <<>>

\* time_formats_to_try (base.py:136-141); "%I%M" is one run of digits
time_formats_to_try == <<
    <<"%I", ":", "%M", " ", "%p">>,
    <<"%H", ":", "%M", " ", "%p">>,
    <<"%I", ":", "%M", "%p">>,
    <<"%H", ":", "%M", "%p">>,
    <<"%H", ":", "%M", ":", "%S">>,
    <<"%H", ":", "%M">>,
    <<"%I", ":", "%M", " ", "%p">>,
    <<"%I%M", " ", "%p">> >>

TimeDirectiveMatches(f, tok) ==
    IF f = "%I%M" THEN tok.k = "n" /\ SplitIM(tok) # <<>>
    ELSE IF f = "%S" THEN tok.k = "n" /\ tok.w \in 1..2 /\ tok.n \in 0..61
    ELSE DirectiveMatches(f, tok)

TimeFormatMatches(t, fmt) ==
    /\ Len(t) = Len(fmt)
    /\ \A i \in DOMAIN fmt : TimeDirectiveMatches(fmt[i], t[i])
    \* datetime rejects second 60 and 61
    /\ IndexIn(fmt, "%S") # 0 => t[IndexIn(fmt, "%S")].n <= 59

StrptimeTime(t, fmt) ==
    LET mer == IF IndexIn(fmt, "%p") # 0 THEN t[IndexIn(fmt, "%p")].s ELSE ""
        im  == IF IndexIn(fmt, "%I%M") # 0
               THEN SplitIM(t[IndexIn(fmt, "%I%M")]) ELSE <<0, 0>>
        h   == IF IndexIn(fmt, "%I%M") # 0 THEN Hour12(im[1], mer)
               ELSE IF IndexIn(fmt, "%I") # 0
                    THEN Hour12(t[IndexIn(fmt, "%I")].n, mer)
               ELSE t[IndexIn(fmt, "%H")].n
        m   == IF IndexIn(fmt, "%I%M") # 0 THEN im[2]
               ELSE t[IndexIn(fmt, "%M")].n
        sec == IF IndexIn(fmt, "%S") # 0 THEN t[IndexIn(fmt, "%S")].n ELSE 0
    IN Time(h, m, sec)

FirstTimeFormat(t) ==
    IF \E i \in DOMAIN time_formats_to_try :
           TimeFormatMatches(t, time_formats_to_try[i])
    THEN CHOOSE i \in DOMAIN time_formats_to_try :
             TimeFormatMatches(t, time_formats_to_try[i])
             /\ \A j \in 1..(i - 1) :
                    ~TimeFormatMatches(t, time_formats_to_try[j])
    ELSE 0

(***************************************************************************)
(* The aggressive fallback (base.py:150-178):                              *)
(* re.match(r'(\d{1,2})(?:[:\.]?(\d{2}))?\s*(AM|PM|am|pm)?', cleaned).     *)
(* AggressiveGroups gives <<hour, minute, meridiem>>, minute -1 and        *)
(* meridiem "" when the group did not take part, <<>> when no match.       *)
(***************************************************************************)
MeridiemAt(t, i) ==
    LET j == IF i <= Len(t) /\ t[i] = SP THEN i + 1 ELSE i
    IN IF j <= Len(t) /\ t[j].k = "w" /\ t[j].s \in Meridiem
       THEN t[j].s ELSE ""

AggressiveGroups(t) ==
    IF t = <<>> \/ t[1].k # "n" THEN <<>>
    ELSE LET w  == t[1].w
             hd == Min(w, 2)
             r  == w - hd                     \* digits left after the hour
             hr == t[1].n \div Pow10(r)
         IN IF r >= 2
            THEN <<hr, (t[1].n \div Pow10(r - 2)) % 100,
                   IF r = 2 THEN MeridiemAt(t, 2) ELSE "">>
            ELSE IF r = 1 THEN <<hr, -1, "">>
            ELSE IF Len(t) >= 3 /\ t[2] = Pn(":") /\ t[3].k = "n" /\ t[3].w >= 2
                 THEN <<hr, t[3].n \div Pow10(t[3].w - 2),
                        IF t[3].w = 2 THEN MeridiemAt(t, 4) ELSE "">>
            ELSE IF Len(t) >= 2 /\ t[2].k = "n" /\ t[2].w >= 2
                 THEN <<hr, t[2].n \div Pow10(t[2].w - 2), "">>
            ELSE <<hr, -1, MeridiemAt(t, 2)>>

AggressiveTime(t) ==
    LET g      == AggressiveGroups(t)
        minute == IF g[2] = -1 THEN 0 ELSE g[2]
        hour   == IF g[3] \in {"PM", "pm"} /\ g[1] < 12 THEN g[1] + 12
                  ELSE IF g[3] \in {"AM", "am"} /\ g[1] = 12 THEN 0
                  ELSE g[1]
    IN IF g = <<>> THEN Midnight
       ELSE IF hour \in 0..23 /\ minute \in 0..59 THEN Time(hour, minute, 0)
       ELSE Midnight

\* the time half of _parse_date_time (base.py:133-178)
ParseTimeStr(time_str) ==
    IF time_str = <<>> THEN Midnight
    ELSE LET c   == CleanTimeStr(time_str)
             i   == FirstTimeFormat(c)
             std == IF i = 0 THEN Midnight
                    ELSE StrptimeTime(c, time_formats_to_try[i])
         IN IF std = Midnight /\ c # <<>> THEN AggressiveTime(c) ELSE std

(***************************************************************************)
(* GranicusBaseScraper._parse_date_time (base.py:79-180): the pair         *)
(* <<parsed_date_str, parsed_time_str>>, NoDate for "".                    *)
(***************************************************************************)
ParseDateOnly(clean, today, has_dateutil) ==
    LET du == IF has_dateutil THEN DateutilParse(clean, today) ELSE NoDate
    IN IF du # NoDate THEN du ELSE ManualDateParse(clean)

_parse_date_time(date_str, time_str, today, has_dateutil) ==
    LET clean0  == CleanDateStr(date_str)
        embed   == date_str # <<>> /\ time_str = <<>> /\ HasTimeInDate(clean0)
        time1   == IF embed THEN TimeInDate(clean0) ELSE time_str
        clean1  == IF embed THEN RemoveTimeInDate(clean0) ELSE clean0
        pdate   == IF date_str = <<>> THEN NoDate
                   ELSE ParseDateOnly(clean1, today, has_dateutil)
    IN <<pdate, ParseTimeStr(time1)>>

(***************************************************************************)
(* Strings built from numbers and words (strftime, f-strings, join).       *)
(***************************************************************************)
DigitStr == <<"0", "1", "2", "3", "4", "5", "6", "7", "8", "9">>

RECURSIVE NatStr(_)
NatStr(n) == IF n < 10 THEN DigitStr[n + 1]
             ELSE NatStr(n \div 10) \o DigitStr[(n % 10) + 1]

Pad2(n) == IF n < 10 THEN "0" \o NatStr(n) ELSE NatStr(n)
Pad4(n) == IF n < 10 THEN "000" \o NatStr(n)
           ELSE IF n < 100 THEN "00" \o NatStr(n)
           ELSE IF n < 1000 THEN "0" \o NatStr(n) ELSE NatStr(n)

\* strftime('%Y-%m-%d') and strftime('%H:%M:%S')
FormatDate(d) == Pad4(d.y) \o "-" \o Pad2(d.m) \o "-" \o Pad2(d.d)
FormatTime(t) == Pad2(t.h) \o ":" \o Pad2(t.m) \o ":" \o Pad2(t.s)

RECURSIVE JoinWords(_, _)
\* sep.join(words)
JoinWords(words, sep) ==
    IF words = <<>> THEN ""
    ELSE IF Len(words) = 1 THEN words[1]
    ELSE words[1] \o sep \o JoinWords(Tail(words), sep)

(***************************************************************************)
(* URLs: host is the list of domain labels (<<>> for a relative link),     *)
(* query the list of <<key, value>> pairs in the order written.            *)
(***************************************************************************)
Url(host, path, query) == [host |-> host, path |-> path, query |-> query]
NoUrl == Url(<<>>, "", <<>>)          \* None, and the empty href

\* GranicusBaseScraper._make_absolute_url (base.py:38-46)
_make_absolute_url(link_url, base_url) ==
    IF link_url = NoUrl \/ base_url = NoUrl THEN NoUrl
    ELSE IF link_url.host # <<>> THEN link_url
    ELSE Url(base_url.host, link_url.path, link_url.query)

\* GranicusBaseScraper._extract_site_name (base.py:48-65)
_extract_site_name(url) ==
    LET parts == url.host
        gi    == IndexIn(parts, "granicus")
    IN IF gi > 1 THEN parts[gi - 1]
       ELSE JoinWords(parts, "_")

\* GranicusBaseScraper._get_state_by_site (base.py:182-197)
_get_state_by_site(site_name) ==
    CASE site_name \in {"sacramento", "marysvilleca", "rocklin-ca"} -> "CA"
      [] site_name \in {"cityofbradenton", "coralsprings", "sibfl"} -> "FL"
      [] OTHER -> ""

\* the words of a + sep + b, for word lists a and b and a separator
\* without whitespace
Glue(a, sep, b) ==
    IF a = <<>> /\ b = <<>> THEN <<sep>>
    ELSE IF a = <<>> THEN <<sep \o b[1]>> \o Tail(b)
    ELSE IF b = <<>> THEN SubSeq(a, 1, Len(a) - 1) \o <<a[Len(a)] \o sep>>
    ELSE SubSeq(a, 1, Len(a) - 1) \o <<a[Len(a)] \o sep \o b[1]>> \o Tail(b)

\* GranicusBaseScraper._normalize_meeting_id (base.py:68-77), on the words
\* of the string: runs of whitespace become "-"
_normalize_meeting_id(words) ==
    IF words = <<>> THEN "unknown-meeting" ELSE JoinWords(words, "-")

(***************************************************************************)
(* GranicusBaseScraper._transform_to_standard_format (base.py:199-237).    *)
(* A raw item has name and committee as lists of words (<<>> for a missing *)
(* or empty one), date and time as texts, and the four links.              *)
(***************************************************************************)
RawItem(name, date, time, src, agenda, minutes, video, packet) ==
    [name |-> name, date |-> date, time |-> time, committee |-> <<>>,
     meeting_id_source |-> src, agenda_url |-> agenda, minutes_url |-> minutes,
     video_url |-> video, packet_url |-> packet]

StandardItem(item, site_url, committee_name_input, today, has_dateutil) ==
    LET dt        == _parse_date_time(item.date, item.time, today, has_dateutil)
        site_name == _extract_site_name(site_url)
        committee == IF committee_name_input # <<>> THEN committee_name_input
                     ELSE IF item.committee # <<>> THEN item.committee
                     ELSE <<"Unknown", "Committee">>
        \* f"{date}-{name}-{committee}-{meeting_id_source}"
        unique_id == Glue(Glue(Glue(<<FormatDate(dt[1])>>, "-", item.name),
                               "-", committee),
                          "-", <<item.meeting_id_source>>)
    IN [asset_name        |-> item.name,
        committee_name    |-> committee,
        place             |-> site_name,
        state_or_province |-> _get_state_by_site(site_name),
        meeting_date      |-> FormatDate(dt[1]),
        meeting_time      |-> FormatTime(dt[2]),
        meeting_id        |-> _normalize_meeting_id(unique_id),
        agenda_url        |-> _make_absolute_url(item.agenda_url, site_url),
        video_url         |-> _make_absolute_url(item.video_url, site_url),
        minutes_url       |-> _make_absolute_url(item.minutes_url, site_url),
        agenda_packet_url |-> _make_absolute_url(item.packet_url, site_url)]

\* the test of base.py:210: the item is kept
ItemKept(item, today, has_dateutil) ==
    /\ item.name # <<>>
    /\ _parse_date_time(item.date, item.time, today, has_dateutil)[1] # NoDate

RECURSIVE _transform_to_standard_format(_, _, _, _, _)
_transform_to_standard_format(items, site_url, committee_name_input, today, has_dateutil) ==
    IF items = <<>> THEN <<>>
    ELSE (IF ItemKept(items[1], today, has_dateutil)
          THEN <<StandardItem(items[1], site_url, committee_name_input,
                              today, has_dateutil)>>
          ELSE <<>>)
         \o _transform_to_standard_format(Tail(items), site_url,
                                          committee_name_input, today,
                                          has_dateutil)

(***************************************************************************)
(* civic_scraper/utils.py and the Asset records the Site classes emit.     *)
(***************************************************************************)
DateTime(date, time) == [date |-> date, time |-> time]
NoDateTime == DateTime(NoDate, NoTime)        \* None

\* datetime.isoformat()
IsoFormat(dt) == FormatDate(dt.date) \o "T" \o FormatTime(dt.time)

RECURSIVE PadN(_, _)
\* the digits of n, zero-padded to width w
PadN(n, w) == IF w <= 1 THEN NatStr(n)
              ELSE IF n < Pow10(w - 1) THEN "0" \o PadN(n, w - 1)
              ELSE NatStr(n)

\* the text a token sequence stands for
RECURSIVE Render(_)
Render(t) ==
    IF t = <<>> THEN ""
    ELSE (CASE t[1].k = "w" -> t[1].s
            [] t[1].k = "n" -> PadN(t[1].n, t[1].w)
            [] t[1] = NBSP -> " "
            [] OTHER -> t[1].s)
         \o Render(Tail(t))

\* str.title() on the words of the input vocabulary
TitleWord(w) ==
    CASE w = "CITY" -> "City"
      [] w = "council" -> "Council"
      [] w = "AGENDA" -> "Agenda"
      [] OTHER -> w

TitleCase(t) == [i \in DOMAIN t |-> IF t[i].k = "w" THEN Wd(TitleWord(t[i].s))
                                    ELSE t[i]]

\* utils.standardize_committee_name (utils.py:68-73)
standardize_committee_name(name) ==
    IF name = <<>> THEN "Unknown Committee" ELSE Render(TitleCase(Strip(name)))

\* utils.asset_generated_id (utils.py:29-32): the first 16 hex characters of
\* SHA-256, kept symbolic as a function of the hashed string
asset_generated_id(input_string) == "sha256_16(" \o input_string \o ")"

\* strptime for formats that carry a date and possibly a time
StrptimeDateTime(t, fmt) ==
    LET mer == IF IndexIn(fmt, "%p") # 0 THEN t[IndexIn(fmt, "%p")].s ELSE ""
        h   == IF IndexIn(fmt, "%I") # 0
               THEN Hour12(t[IndexIn(fmt, "%I")].n, mer)
               ELSE IF IndexIn(fmt, "%H") # 0 THEN t[IndexIn(fmt, "%H")].n
               ELSE 0
        m   == IF IndexIn(fmt, "%M") # 0 THEN t[IndexIn(fmt, "%M")].n ELSE 0
        sec == IF IndexIn(fmt, "%S") # 0 THEN t[IndexIn(fmt, "%S")].n ELSE 0
    IN IF StrptimeOk(t, fmt) /\ sec <= 59
       THEN DateTime(StrptimeDateFields(t, fmt), Time(h, m, sec))
       ELSE NoDateTime

RECURSIVE parse_datetime_formats(_, _)
\* utils.parse_datetime_formats (utils.py:35-65): the first format that
\* parses wins; NoDateTime stands for the ValueError raised when none does.
\* Localizing to the site's timezone changes neither date nor time of day.
parse_datetime_formats(datetime_str, formats) ==
    IF formats = <<>> THEN NoDateTime
    ELSE IF StrptimeDateTime(datetime_str, formats[1]) # NoDateTime
         THEN StrptimeDateTime(datetime_str, formats[1])
         ELSE parse_datetime_formats(datetime_str, Tail(formats))

\* urllib.parse.urljoin(base, link) for a link with an absolute path
UrlJoin(base, link) ==
    IF link.host # <<>> THEN link ELSE Url(base.host, link.path, link.query)

Asset(url, asset_name, committee_name, place, asset_type, dt_date, dt_time, meeting_id) ==
    [url |-> url, asset_name |-> asset_name, committee_name |-> committee_name,
     place |-> place, asset_type |-> asset_type, meeting_date |-> dt_date,
     meeting_time |-> dt_time, meeting_id |-> meeting_id]

(***************************************************************************)
(* platforms/granicus/site.py                                              *)
(***************************************************************************)
\* parse_qs(query): pairs with a blank value are left out
ParseQs(query) == FilterSeq(query, [i \in DOMAIN query |-> query[i][2] # ""])

HasKey(qs, key) == \E i \in DOMAIN qs : qs[i][1] = key

FirstValue(qs, key) ==
    qs[CHOOSE i \in DOMAIN qs :
           qs[i][1] = key /\ \A j \in 1..(i - 1) : qs[j][1] # key][2]

id_keys == <<"clip_id", "meta_id", "event_id", "id", "meeting_id">>

\* Site._extract_meeting_id (site.py:275-288); NULL for None
_extract_meeting_id(url) ==
    LET qs   == ParseQs(url.query)
        hits == FilterSeq(id_keys, [i \in DOMAIN id_keys |-> HasKey(qs, id_keys[i])])
    IN IF hits = <<>> THEN NULL ELSE FirstValue(qs, hits[1])

\* str.split(" - ")
IsDashSep(t, i) ==
    i + 2 <= Len(t) /\ t[i] = SP /\ t[i + 1] = Pn("-") /\ t[i + 2] = SP

RECURSIVE SplitDash(_)
SplitDash(t) ==
    IF \E i \in DOMAIN t : IsDashSep(t, i)
    THEN LET i == CHOOSE i \in DOMAIN t :
                      IsDashSep(t, i) /\ \A j \in 1..(i - 1) : ~IsDashSep(t, j)
         IN <<SubSeq(t, 1, i - 1)>> \o SplitDash(SubSeq(t, i + 3, Len(t)))
    ELSE <<t>>

\* a feedparser entry: published_parsed is "absent" (no attribute), "none"
\* (pubDate present but not a date: the attribute is None) or "ok"
RssEntry(title, link, published, pub_dt) ==
    [title |-> title, link |-> link, published |-> published, pub_dt |-> pub_dt]

rss_title_formats == << <<"%b", " ", "%d", ",", " ", "%Y">>,
                        <<"%B", " ", "%d", ",", " ", "%Y">> >>

\* Site._create_asset_from_rss_entry (site.py:291-371) as called by
\* _scrape_rss (site.py:82-88): the list holding the Asset, or <<>> when an
\* exception escapes and the entry is logged and left out
_create_asset_from_rss_entry(entry, place, clock) ==
    LET asset_name  == Strip(entry.title)
        title_parts == SplitDash(asset_name)
        parts       == [i \in DOMAIN title_parts |-> Strip(title_parts[i])]
        split_ok    == Len(parts) >= 3
        committee   == IF split_ok THEN parts[1] ELSE asset_name
        asset_type  == IF split_ok THEN Render(parts[2]) ELSE "Unknown"
        from_title  == IF split_ok
                       THEN parse_datetime_formats(parts[Len(parts)],
                                                   rss_title_formats)
                       ELSE NoDateTime
        \* site.py:321-323: the title gave a date only, pubDate gives the time;
        \* datetime(*None[:6]) raises TypeError, which site.py:325 does not catch
        raises      == from_title # NoDateTime /\ entry.published = "none"
        titled      == IF from_title # NoDateTime /\ entry.published = "ok"
                       THEN DateTime(from_title.date, entry.pub_dt.time)
                       ELSE from_title
        \* site.py:333-340: the published date, and then the wall clock
        meeting_datetime ==
            IF titled # NoDateTime \/ entry.published = "absent" THEN titled
            ELSE IF entry.published = "ok" THEN entry.pub_dt
            ELSE clock
    IN IF raises THEN <<>>
       ELSE <<Asset(entry.link, Render(asset_name),
                    standardize_committee_name(committee), place, asset_type,
                    meeting_datetime.date, meeting_datetime.time,
                    _extract_meeting_id(entry.link))>>

\* a meeting <li>: the cells by label (FALSE when the cell is absent), their
\* texts, and the href of the link in each link cell (NoUrl for none)
HtmlLi(meeting_cell, name, date_cell, datetime_str, agenda, packet, minutes, video) ==
    [meeting_cell |-> meeting_cell, name |-> name, date_cell |-> date_cell,
     datetime_str |-> datetime_str, agenda |-> agenda, packet |-> packet,
     minutes |-> minutes, video |-> video]

html_li_formats == <<
    <<"%B", " ", "%d", ",", " ", "%Y", " ", "-", " ", "%I", ":", "%M", " ", "%p">>,
    <<"%b", " ", "%d", ",", " ", "%Y", " ", "-", " ", "%I", ":", "%M", " ", "%p">>,
    <<"%B", " ", "%d", ",", " ", "%Y">>,
    <<"%b", " ", "%d", ",", " ", "%Y">> >>

\* Site._create_asset_from_html_li (site.py:137-272): the list holding the
\* Asset, or <<>> for None
_create_asset_from_html_li(li, site_url, place) ==
    LET asset_name   == Render(Strip(li.name))
        datetime_str == Strip(CollapseSpaces(ReplaceNbsp(Strip(li.datetime_str))))
        meeting_datetime == parse_datetime_formats(datetime_str, html_li_formats)
        meeting_time == IF meeting_datetime.time = Midnight THEN NoTime
                        ELSE meeting_datetime.time
        primary_link == IF li.packet # NoUrl THEN li.packet
                        ELSE IF li.agenda # NoUrl THEN li.agenda
                        ELSE IF li.minutes # NoUrl THEN li.minutes
                        ELSE li.video
        asset_type   == IF li.packet # NoUrl THEN "Agenda Packet"
                        ELSE IF li.agenda # NoUrl THEN "Agenda"
                        ELSE IF li.minutes # NoUrl THEN "Minutes"
                        ELSE "Video"
        meeting_url  == UrlJoin(site_url, primary_link)
        raw_id       == _extract_meeting_id(meeting_url)
        meeting_id   == IF raw_id # NULL THEN raw_id
                        ELSE asset_generated_id(place \o "-" \o asset_name \o "-"
                                                \o IsoFormat(meeting_datetime))
    IN IF ~li.meeting_cell \/ ~li.date_cell THEN <<>>
       ELSE IF meeting_datetime = NoDateTime THEN <<>>
       ELSE IF primary_link = NoUrl THEN <<>>
       ELSE <<Asset(meeting_url, asset_name,
                    standardize_committee_name(Strip(li.name)), place,
                    asset_type, meeting_datetime.date, meeting_time,
                    meeting_id)>>

(***************************************************************************)
(* platforms/civic_clerk/site.py                                           *)
(***************************************************************************)
\* a meeting dict: "" and <<>> stand for a key that is missing or empty;
\* docs is what the documents endpoints return for it, as <<url, name>>
Event(id, name, date, groupName, docs) ==
    [id |-> id, name |-> name, date |-> date, groupName |-> groupName,
     docs |-> docs]

\* datetime.fromisoformat: YYYY-MM-DD, optionally followed by one separator
\* character and HH:MM or HH:MM:SS, optionally followed by an offset; the
\* caller has turned a final "Z" into the offset "+00:00"
IsoDatePart(t) ==
    /\ Len(t) >= 5
    /\ t[1].k = "n" /\ t[1].w = 4
    /\ t[2] = Pn("-") /\ t[3].k = "n" /\ t[3].w = 2
    /\ t[4] = Pn("-") /\ t[5].k = "n" /\ t[5].w = 2
    /\ ValidDate(t[1].n, t[3].n, t[5].n)

IsoTimePart(r) ==
    /\ Len(r) \in {4, 6}
    /\ r[1].k = "p"
    /\ r[2].k = "n" /\ r[2].w = 2 /\ r[2].n <= 23
    /\ r[3] = Pn(":") /\ r[4].k = "n" /\ r[4].w = 2 /\ r[4].n <= 59
    /\ Len(r) = 6 => (r[5] = Pn(":") /\ r[6].k = "n" /\ r[6].w = 2
                      /\ r[6].n <= 59)

DropZ(t) == IF t # <<>> /\ t[Len(t)] = Pn("Z") THEN SubSeq(t, 1, Len(t) - 1)
            ELSE t

fromisoformat(t) ==
    LET u == DropZ(t)
        r == SubSeq(u, 6, Len(u))
    IN IF ~IsoDatePart(u) THEN NoDateTime
       ELSE IF r = <<>> THEN DateTime(Date(u[1].n, u[3].n, u[5].n), Midnight)
       ELSE IF IsoTimePart(r)
            THEN DateTime(Date(u[1].n, u[3].n, u[5].n),
                          Time(r[2].n, r[4].n, IF Len(r) = 6 THEN r[6].n ELSE 0))
       ELSE NoDateTime

\* the strptime formats of _parse_meeting_datetime (site.py:771-779)
civicclerk_formats == <<
    <<"%Y", "-", "%m", "-", "%d", "T", "%H", ":", "%M", ":", "%S">>,
    <<"%Y", "-", "%m", "-", "%d", "T", "%H", ":", "%M", ":", "%S", ".", "%f", "Z">>,
    <<"%m", "/", "%d", "/", "%Y", " ", "%I", ":", "%M", " ", "%p">>,
    <<"%m", "/", "%d", "/", "%Y">>,
    <<"%B", " ", "%d", ",", " ", "%Y">>,
    <<"%b", " ", "%d", ",", " ", "%Y", " ", "%I", ":", "%M", " ", "%p">> >>

\* CivicClerkSite._parse_meeting_datetime (site.py:755-806); clock is what
\* datetime.now() returns
_parse_meeting_datetime(meeting, clock) ==
    LET date_str == meeting.date
        iso      == fromisoformat(date_str)
        std      == parse_datetime_formats(date_str, civicclerk_formats)
        cleaned  == fromisoformat(DropZ(date_str))
    IN IF date_str = <<>> THEN clock
       ELSE IF iso # NoDateTime THEN iso
       ELSE IF std # NoDateTime THEN std
       ELSE IF cleaned # NoDateTime THEN cleaned
       ELSE clock

\* a card of the page or of the calendar: id is data-meeting-id or id ("" for
\* neither), name NULL when there is no title element, has_date FALSE when
\* there is no date element
DomElement(id, name, has_date, date) ==
    [id |-> id, name |-> name, has_date |-> has_date, date |-> date]

\* CivicClerkSite._fetch_meetings_from_dom (site.py:668-753); uuids[i] is
\* what str(uuid.uuid4()) returns for element i
RECURSIVE _fetch_meetings_from_dom(_, _)
_fetch_meetings_from_dom(elements, uuids) ==
    IF elements = <<>> THEN <<>>
    ELSE LET e  == elements[1]
             id == IF e.id # "" THEN e.id ELSE uuids[1]
             nm == IF e.name = NULL THEN "Meeting" ELSE e.name
         IN (IF nm # ""
             THEN <<Event(id, nm, IF e.has_date THEN e.date ELSE <<>>,
                          "Committee", <<>>)>>
             ELSE <<>>)
            \o _fetch_meetings_from_dom(Tail(elements), Tail(uuids))

\* the calendar page of CivicClerkSite.events (site.py:825-874)
RECURSIVE CalendarMeetings(_, _)
CalendarMeetings(elements, uuids) ==
    IF elements = <<>> THEN <<>>
    ELSE LET e == elements[1]
         IN (IF e.has_date
             THEN <<Event(uuids[1],
                          IF e.name = NULL THEN "Calendar Meeting" ELSE e.name,
                          e.date, "Committee", <<>>)>>
             ELSE <<>>)
            \o CalendarMeetings(Tail(elements), Tail(uuids))

\* CivicClerkSite.events (site.py:808-880): the one batch it yields
events(content, uuids) ==
    LET dom_meetings == _fetch_meetings_from_dom(content.dom, uuids)
    IN IF content.api # <<>> THEN content.api
       ELSE IF dom_meetings # <<>> THEN dom_meetings
       ELSE CalendarMeetings(content.calendar, uuids)

\* CivicClerkSite._get_agenda_items_api (site.py:882-893) with
\* _get_documents_from_api (site.py:534-666)
_get_agenda_items_api(event, base_url) ==
    IF event.docs # <<>> THEN event.docs
    ELSE << <<Url(base_url.host, "/meetings/" \o event.id, <<>>),
              "Meeting Information">> >>

\* the assets CivicClerkSite.scrape builds for one event (site.py:906-935)
CivicClerkEventAssets(event, instance, base_url, place, clock) ==
    LET committee_name   == IF event.groupName # "" THEN event.groupName
                            ELSE IF event.name # "" THEN event.name
                            ELSE "Unknown Committee"
        meeting_datetime == _parse_meeting_datetime(event, clock)
        meeting_id       == "civicclerk_" \o instance \o "_" \o event.id
        agenda_items     == _get_agenda_items_api(event, base_url)
    IN IF event.id = "" THEN <<>>
       ELSE [i \in DOMAIN agenda_items |->
                Asset(agenda_items[i][1], agenda_items[i][2], committee_name,
                      place, "Meeting", meeting_datetime.date,
                      meeting_datetime.time, meeting_id)]

RECURSIVE CivicClerkAssets(_, _, _, _, _)
CivicClerkAssets(batch, instance, base_url, place, clock) ==
    IF batch = <<>> THEN <<>>
    ELSE CivicClerkEventAssets(batch[1], instance, base_url, place, clock)
         \o CivicClerkAssets(Tail(batch), instance, base_url, place, clock)

(***************************************************************************)
(* platforms/legistar/site.py                                              *)
(***************************************************************************)
\* an event of LegistarEventsScraper.events: details is the link of the
\* "Meeting Details" cell (NoUrl when the cell is plain text), agenda and
\* minutes the links of those cells (NoUrl when the cell is plain text)
LegistarEvent(name, details, date_info, time_info, agenda, minutes) ==
    [name |-> name, details |-> details, date_info |-> date_info,
     time_info |-> time_info, agenda |-> agenda, minutes |-> minutes]

legistar_date_format ==
    <<"%m", "/", "%d", "/", "%Y", " ", "%I", ":", "%M", " ", "%p">>

T_1200AM == <<Num(12, 2), Pn(":"), Num(0, 2), SP, Wd("AM")>>

\* re.match(r"\d*?:\d{2} \w{2}", time_info) (site.py:227)
LegistarTimeFormat(t) ==
    \/ /\ Len(t) >= 5 /\ t[1].k = "n" /\ t[2] = Pn(":")
       /\ t[3].k = "n" /\ t[3].w = 2 /\ t[4] = SP /\ t[5].k = "w"
    \/ /\ Len(t) >= 4 /\ t[1] = Pn(":")
       /\ t[2].k = "n" /\ t[2].w = 2 /\ t[3] = SP /\ t[4].k = "w"

\* the datetime of Site._extract_meeting_meta (site.py:222-234); NoDateTime
\* when scraper.toTime raises
LegistarMeetingTime(event) ==
    StrptimeDateTime(event.date_info \o <<SP>>
                     \o (IF event.time_info # <<>>
                            /\ LegistarTimeFormat(event.time_info)
                         THEN event.time_info ELSE T_1200AM),
                     legistar_date_format)

\* the event raises in _extract_meeting_meta: toTime, or query_dict["ID"]
LegistarRaises(event) ==
    \/ LegistarMeetingTime(event) = NoDateTime
    \/ event.details # NoUrl /\ ~HasKey(ParseQs(event.details.query), "ID")

\* the meeting_id of Site._extract_meeting_meta (site.py:236-247)
LegistarMeetingId(event, instance) ==
    IF event.details # NoUrl
    THEN "legistar_" \o instance \o "_"
         \o FirstValue(ParseQs(event.details.query), "ID")
    ELSE NULL

DtLe(a, b) ==
    LET ka == <<a.date.y, a.date.m, a.date.d, a.time.h, a.time.m, a.time.s>>
        kb == <<b.date.y, b.date.m, b.date.d, b.time.h, b.time.m, b.time.s>>
    IN \/ ka = kb
       \/ \E i \in 1..6 : ka[i] < kb[i] /\ \A j \in 1..(i - 1) : ka[j] = kb[j]

\* utils.dtz_to_dt (utils.py:15-16): the date, at midnight
dtz_to_dt(date) == DateTime(date, Midnight)

\* Site._skippable_event (site.py:271-305) without download
_skippable_event(asset, start_date, end_date) ==
    \/ asset.url.host = <<>>
    \/ ~(/\ DtLe(DateTime(start_date, Midnight), dtz_to_dt(asset.meeting_date))
         /\ DtLe(dtz_to_dt(asset.meeting_date), DateTime(end_date, Midnight)))

\* Site._create_asset (site.py:183-210); <<>> for the TypeError of a cell
\* that is plain text
LegistarAsset(event, asset_type, link, instance, place) ==
    LET mt         == LegistarMeetingTime(event)
        meeting_id == LegistarMeetingId(event, instance)
        clean_id   == IF meeting_id = NULL THEN <<>>
                      ELSE <<FirstValue(ParseQs(event.details.query), "ID")>>
    IN IF link = NoUrl THEN <<>>
       ELSE <<Asset(link,
                    JoinWords(<<event.name>> \o clean_id \o <<asset_type>>, " - "),
                    event.name, place,
                    IF asset_type = "Agenda" THEN "agenda" ELSE "minutes",
                    mt.date, mt.time, meeting_id)>>

RECURSIVE LegistarAssets(_, _, _, _, _)
\* the loop of Site.scrape (site.py:127-140), asset types Agenda and Minutes
LegistarAssets(evs, start_date, end_date, instance, place) ==
    IF evs = <<>> THEN <<>>
    ELSE LET both == LegistarAsset(evs[1], "Agenda", evs[1].agenda, instance, place)
                     \o LegistarAsset(evs[1], "Minutes", evs[1].minutes, instance,
                                      place)
         IN FilterSeq(both, [i \in DOMAIN both |->
                                ~_skippable_event(both[i], start_date, end_date)])
            \o LegistarAssets(Tail(evs), start_date, end_date, instance, place)

\* Site.scrape (site.py:77-146): start and end default to today; an exception
\* in _extract_meeting_meta ends the scrape without a result
LegistarScrape(evs, start_date, end_date, instance, place, today) ==
    IF \E i \in DOMAIN evs : LegistarRaises(evs[i]) THEN <<>>
    ELSE LegistarAssets(evs,
                        IF start_date = NoDate THEN today ELSE start_date,
                        IF end_date = NoDate THEN today ELSE end_date,
                        instance, place)

(***************************************************************************)
(* platforms/civic_plus/site.py                                            *)
(***************************************************************************)
\* a row of parsed file metadata; meeting_id is the raw id as its pieces,
\* "_" for an underscore
CivicPlusRow(url_path, committee_name, meeting_id, meeting_date, meeting_title, asset_type) ==
    [url_path |-> url_path, committee_name |-> committee_name,
     meeting_id |-> meeting_id, meeting_date |-> meeting_date,
     meeting_title |-> meeting_title, asset_type |-> asset_type]

RECURSIVE LStripUnderscore(_)
\* raw_mtg_id.lstrip('_')
LStripUnderscore(pieces) ==
    IF pieces # <<>> /\ pieces[1] = "_" THEN LStripUnderscore(Tail(pieces))
    ELSE pieces

\* Site._mk_mtg_id (site.py:190-191)
_mk_mtg_id(subdomain, raw_mtg_id) ==
    "civicplus_" \o subdomain \o "_" \o JoinWords(LStripUnderscore(raw_mtg_id), "")

\* Site._build_asset_collection (site.py:150-184)
_build_asset_collection(metadata, site_url, place) ==
    [i \in DOMAIN metadata |->
        Asset(UrlJoin(site_url, metadata[i].url_path), metadata[i].meeting_title,
              metadata[i].committee_name, place, metadata[i].asset_type,
              metadata[i].meeting_date, NoTime,
              _mk_mtg_id(site_url.host[1], metadata[i].meeting_id))]

(***************************************************************************)
(* Texts used as inputs.                                                   *)
(***************************************************************************)
T_Jan15_2024  == <<Wd("Jan"), SP, Num(15, 2), Pn(","), SP, Num(2024, 4)>>
T_January15   == <<Wd("January"), SP, Num(15, 2)>>          \* no year
T_TBD         == <<Wd("TBD")>>
T_Slash       == <<Num(1, 1), Pn("/"), Num(15, 2), Pn("/"), Num(2024, 4)>>
T_Feb30       == <<Wd("Feb"), SP, Num(30, 2), Pn(","), SP, Num(2024, 4)>>
T_Iso         == <<Num(2024, 4), Pn("-"), Num(1, 2), Pn("-"), Num(15, 2)>>
T_WithTime    == <<Wd("Jan"), NBSP, Num(15, 2), Pn(","), SP, Num(2024, 4), SP,
                   Pn("-"), SP, Num(6, 1), Pn(":"), Num(30, 2), SP, Wd("PM")>>
T_630PM       == <<Num(6, 1), Pn(":"), Num(30, 2), SP, Wd("PM")>>
T_6dot30      == <<Num(6, 1), Pn("."), Num(30, 2), SP, Wd("p"), Pn("."),
                   Wd("m"), Pn(".")>>

\* two readings of the wall clock, either side of a new year
Clocks == <<Date(2024, 12, 31), Date(2025, 1, 1)>>
ClockTimes == <<Time(23, 59, 58), Time(0, 0, 3)>>
ClockNow(i) == DateTime(Clocks[i], ClockTimes[i])       \* datetime.now()

SiteUrl == Url(<<"sacramento", "granicus", "com">>, "ViewPublisher.php",
               <<<<"view_id", "1">>>>)

RegularMeeting == <<"Regular", "Meeting">>
CityCouncil    == <<"City", "Council">>

\* raw records as the layout scrapers hand them over
RawItems ==
    { RawItem(n, d, <<>>, "", NoUrl, NoUrl, NoUrl, NoUrl) :
          n \in {<<>>, RegularMeeting},
          d \in {<<>>, T_Jan15_2024, T_January15, T_TBD} }
    \cup
    { RawItem(RegularMeeting, d, t, "77", NoUrl, NoUrl, NoUrl, NoUrl) :
          d \in {T_Slash, T_Feb30, T_Iso, T_WithTime},
          t \in {<<>>, T_630PM} }

(***************************************************************************)
(* The standardization component: a batch of raw records is standardized   *)
(* by calls made at different readings of the clock.                       *)
(***************************************************************************)
transform_vars == <<extracted_items, committee_input, std_runs>>
asset_vars == <<raw_content, asset_runs>>
legacy_vars == <<html_content, panel_name, attempts, tried, next_strategy,
                 dispatch_result>>
signature_vars == <<scrape_calls>>
request_vars == <<request, outcomes, asset_collection, runner_result>>

RequestIdle ==
    /\ request = <<>>
    /\ asset_collection = <<>>
    /\ runner_result = <<>>
    /\ outcomes = <<>>

LegacyIdle ==
    /\ html_content = <<>>
    /\ panel_name = <<>>
    /\ attempts = <<>>
    /\ tried = <<>>
    /\ next_strategy = 0
    /\ dispatch_result = <<>>

SignatureIdle == scrape_calls = <<>>

AssetsIdle ==
    /\ raw_content = <<>>
    /\ asset_runs = <<>>

TransformIdle ==
    /\ extracted_items = <<>>
    /\ committee_input = <<>>
    /\ std_runs = <<>>

InitTransform ==
    /\ comp = "transform"
    /\ now = 1
    /\ dateutil_ok \in BOOLEAN
    /\ extracted_items \in SeqUpTo(RawItems, MaxItems)
    /\ committee_input \in {<<>>, CityCouncil}
    /\ std_runs = <<>>
    /\ AssetsIdle
    /\ LegacyIdle
    /\ SignatureIdle
    /\ RequestIdle

\* the wall clock advances
Tick ==
    /\ now < Len(Clocks)
    /\ now' = now + 1
    /\ UNCHANGED <<comp, dateutil_ok, transform_vars, asset_vars, legacy_vars,
                   signature_vars,
                   request_vars>>

\* a call of _transform_to_standard_format(extracted_items, url, panel_name)
Transform ==
    /\ comp = "transform"
    /\ Len(std_runs) < MaxRuns
    /\ std_runs' = Append(std_runs,
           _transform_to_standard_format(extracted_items, SiteUrl,
                                         committee_input, Clocks[now],
                                         dateutil_ok))
    /\ UNCHANGED <<comp, now, dateutil_ok, extracted_items, committee_input,
                   asset_vars, legacy_vars, signature_vars,
                   request_vars>>

NextTransform == Tick \/ Transform

SpecTransform == InitTransform /\ [][NextTransform]_vars

(***************************************************************************)
(* The Site classes: what each site serves, and one scrape per action.     *)
(***************************************************************************)
GranicusHost == <<"sacramento", "granicus", "com">>
GranicusRssUrl  == Url(GranicusHost, "ViewPublisherRSS.php", <<<<"view_id", "1">>>>)
GranicusHtmlUrl == Url(GranicusHost, "ViewPublisher.php", <<<<"view_id", "1">>>>)
CivicClerkUrl == Url(<<"townx", "api", "civicclerk", "com">>, "/", <<>>)
LegistarUrl   == Url(<<"cityy", "legistar", "com">>, "Calendar.aspx", <<>>)
CivicPlusUrl  == Url(<<"ca-townz", "civicplus", "com">>, "/AgendaCenter", <<>>)

Player(query) == Url(GranicusHost, "MediaPlayer.php", query)

T_CouncilAgendaJan15 ==
    <<Wd("City"), SP, Wd("Council"), SP, Pn("-"), SP, Wd("Agenda"), SP, Pn("-"),
      SP>> \o T_Jan15_2024
T_ShoutedTitle ==
    <<Wd("CITY"), SP, Wd("council"), SP, Pn("-"), SP, Wd("AGENDA"), SP, Pn("-"),
      SP, Wd("January"), SP, Num(15, 2), Pn(","), SP, Num(2024, 4)>>
T_SpecialMeeting == <<Wd("Special"), SP, Wd("Meeting")>>
T_CouncilAgendaTBD ==
    <<Wd("City"), SP, Wd("Council"), SP, Pn("-"), SP, Wd("Agenda"), SP, Pn("-"),
      SP, Wd("TBD")>>

PubDate == DateTime(Date(2024, 1, 16), Time(3, 0, 0))

RssEntries == {
    RssEntry(T_CouncilAgendaJan15, Player(<<<<"ID", "4521">>>>), "ok", PubDate),
    RssEntry(T_ShoutedTitle, Player(<<<<"clip_id", "77">>>>), "absent", NoDateTime),
    RssEntry(T_SpecialMeeting, Player(<<<<"view_id", "1">>>>), "absent", NoDateTime),
    RssEntry(T_SpecialMeeting, Player(<<<<"clip_id", "88">>>>), "none", NoDateTime),
    RssEntry(T_CouncilAgendaTBD, Player(<<<<"id", "5">>, <<"clip_id", "9">>>>),
             "ok", PubDate),
    RssEntry(T_CouncilAgendaJan15, Player(<<<<"clip_id", "">>, <<"meta_id", "31">>>>),
             "none", NoDateTime) }

T_Apr23_2025 == <<Wd("Apr"), SP, Num(23, 2), Pn(","), SP, Num(2025, 4)>>
T_April23_630 == <<Wd("April"), SP, Num(23, 2), Pn(","), NBSP, Num(2025, 4), SP,
                   Pn("-"), SP, Num(6, 1), Pn(":"), Num(30, 2), SP, Wd("PM")>>
T_CityCouncil == <<Wd("CITY"), SP, Wd("council")>>

Packet    == Url(<<>>, "/DocumentViewer.php", <<<<"file", "a.pdf">>>>)
AgendaDoc == Url(<<>>, "/AgendaViewer.php", <<<<"view_id", "1">>, <<"clip_id", "77">>>>)
MinutesDoc == Url(GranicusHost, "/MinutesViewer.php",
                  <<<<"meeting_id", "12">>, <<"event_id", "40">>>>)

HtmlLis == {
    HtmlLi(TRUE, T_CityCouncil, TRUE, T_Apr23_2025, NoUrl, Packet, NoUrl, NoUrl),
    HtmlLi(TRUE, T_CityCouncil, TRUE, T_April23_630, AgendaDoc, NoUrl, NoUrl, NoUrl),
    HtmlLi(TRUE, T_SpecialMeeting, TRUE, T_Apr23_2025, NoUrl, NoUrl, MinutesDoc,
           NoUrl),
    HtmlLi(TRUE, T_SpecialMeeting, TRUE, T_TBD, AgendaDoc, NoUrl, NoUrl, NoUrl),
    HtmlLi(TRUE, T_SpecialMeeting, TRUE, T_Apr23_2025, NoUrl, NoUrl, NoUrl, NoUrl),
    HtmlLi(FALSE, <<>>, TRUE, T_Apr23_2025, AgendaDoc, NoUrl, NoUrl, NoUrl),
    HtmlLi(TRUE, T_SpecialMeeting, FALSE, <<>>, AgendaDoc, NoUrl, NoUrl, NoUrl) }

T_IsoT1830 == T_Iso \o <<Pn("T"), Num(18, 2), Pn(":"), Num(30, 2), Pn(":"),
                         Num(0, 2), Pn("Z")>>
T_Slash630 == <<Num(1, 2), Pn("/"), Num(15, 2), Pn("/"), Num(2024, 4), SP,
                Num(6, 1), Pn(":"), Num(30, 2), SP, Wd("PM")>>
T_SlashDate == <<Num(1, 2), Pn("/"), Num(15, 2), Pn("/"), Num(2024, 4)>>

Doc1 == <<Url(<<"townx", "api", "civicclerk", "com">>, "/files/9", <<>>), "Agenda">>

ApiEvents == {
    Event("101", "Council Meeting", T_IsoT1830, "City Council", <<Doc1>>),
    Event("102", "Council Meeting", T_Slash630, "", <<>>),
    Event("103", "Council Meeting", <<>>, "City Council", <<>>),
    Event("104", "Council Meeting", T_TBD, "City Council", <<>>),
    Event("", "Council Meeting", T_Iso, "City Council", <<>>) }

DomElements == {
    DomElement("m-12", "Council Meeting", TRUE, T_Iso),
    DomElement("", "Council Meeting", TRUE, T_IsoT1830),
    DomElement("", NULL, FALSE, <<>>),
    DomElement("m-13", "", TRUE, T_Iso) }

CalendarElements == {
    DomElement("", "Council Meeting", TRUE, T_Iso),
    DomElement("", NULL, TRUE, T_January15),
    DomElement("", "Council Meeting", FALSE, <<>>) }

CivicClerkContent(api, dom, calendar) ==
    [api |-> api, dom |-> dom, calendar |-> calendar]

CivicClerkContents ==
    {CivicClerkContent(a, <<>>, <<>>) : a \in SeqUpTo(ApiEvents, MaxItems)}
    \cup {CivicClerkContent(<<>>, d, c) : d \in SeqUpTo(DomElements, MaxItems),
                                          c \in SeqUpTo(CalendarElements, 1)}

UUIDs == {"uuid-a", "uuid-b"}

Details(query) == Url(<<"cityy", "legistar", "com">>, "MeetingDetail.aspx", query)
PdfA == Url(<<"cityy", "legistar", "com">>, "View.ashx", <<<<"M", "A">>>>)
PdfM == Url(<<"cityy", "legistar", "com">>, "View.ashx", <<<<"M", "M">>>>)

LegistarEvents == {
    LegistarEvent("City Council", Details(<<<<"ID", "900">>, <<"GUID", "ab">>>>),
                  T_SlashDate, T_630PM, PdfA, PdfM),
    LegistarEvent("City Council", NoUrl, T_SlashDate, <<>>, PdfA, NoUrl),
    LegistarEvent("Planning Board", Details(<<<<"GUID", "cd">>>>), T_SlashDate,
                  T_630PM, PdfA, NoUrl),
    LegistarEvent("Planning Board", Details(<<<<"ID", "901">>>>), T_TBD, <<>>,
                  PdfA, NoUrl),
    LegistarEvent("Planning Board", Details(<<<<"ID", "902">>>>), T_SlashDate,
                  <<>>, NoUrl, NoUrl) }

LegistarContent(evs, start_date, end_date) ==
    [events |-> evs, start_date |-> start_date, end_date |-> end_date]

LegistarContents ==
    {LegistarContent(e, r[1], r[2]) :
         e \in SeqUpTo(LegistarEvents, MaxItems),
         r \in {<<NoDate, NoDate>>, <<Date(2024, 1, 1), Date(2024, 1, 15)>>,
                <<Date(2024, 1, 1), Date(2024, 12, 31)>>}}

CivicPlusRows == {
    CivicPlusRow(Url(<<>>, "/AgendaCenter/ViewFile/Agenda/_01152024-7", <<>>),
                 "City Council", <<"_", "01152024-7">>, Date(2024, 1, 15),
                 "Regular Meeting", "agenda"),
    CivicPlusRow(Url(<<>>, "/AgendaCenter/ViewFile/Minutes/_01152024-7", <<>>),
                 "City Council", <<"_", "_", "01152024-7">>, Date(2024, 1, 15),
                 "Regular Meeting", "minutes"),
    CivicPlusRow(Url(<<>>, "/AgendaCenter/ViewFile/Agenda/02012024-8", <<>>),
                 "Planning Board", <<"02012024-8">>, Date(2024, 2, 1),
                 "Special Meeting", "agenda") }

RECURSIVE _scrape_rss(_, _, _)
\* Site._scrape_rss (site.py:66-91) on the entries of the feed
_scrape_rss(entries, place, clock) ==
    IF entries = <<>> THEN <<>>
    ELSE _create_asset_from_rss_entry(entries[1], place, clock)
         \o _scrape_rss(Tail(entries), place, clock)

RECURSIVE _scrape_html(_, _, _)
\* Site._scrape_html (site.py:94-135) on the meeting list items of the page
_scrape_html(meeting_list_items, site_url, place) ==
    IF meeting_list_items = <<>> THEN <<>>
    ELSE _create_asset_from_html_li(meeting_list_items[1], site_url, place)
         \o _scrape_html(Tail(meeting_list_items), site_url, place)

\* Site.__init__ (granicus/site.py:36-41): the place is the first host label
GranicusPlace(url) == IF Len(url.host) > 1 /\ url.host[2] = "granicus"
                      THEN url.host[1] ELSE NULL

InitAssets ==
    /\ comp \in {"rss", "html", "civicclerk", "legistar", "civicplus"}
    /\ now = 1
    /\ dateutil_ok = TRUE
    /\ TransformIdle
    /\ raw_content \in
          CASE comp = "rss"        -> SeqUpTo(RssEntries, MaxItems)
            [] comp = "html"       -> SeqUpTo(HtmlLis, MaxItems)
            [] comp = "civicclerk" -> CivicClerkContents
            [] comp = "legistar"   -> LegistarContents
            [] comp = "civicplus"  -> SeqUpTo(CivicPlusRows, MaxItems)
    /\ asset_runs = <<>>
    /\ LegacyIdle
    /\ SignatureIdle
    /\ RequestIdle

\* a scrape returns its AssetCollection
Returns(assets) ==
    /\ Len(asset_runs) < MaxRuns
    /\ asset_runs' = Append(asset_runs, assets)
    /\ UNCHANGED <<comp, now, dateutil_ok, transform_vars, raw_content,
                   legacy_vars, signature_vars,
                   request_vars>>

\* granicus Site.scrape on a ViewPublisherRSS.php url (site.py:47-55)
ScrapeGranicusRss ==
    /\ comp = "rss"
    /\ Returns(_scrape_rss(raw_content, GranicusPlace(GranicusRssUrl),
                           ClockNow(now)))

\* granicus Site.scrape on a ViewPublisher.php url (site.py:56-58)
ScrapeGranicusHtml ==
    /\ comp = "html"
    /\ Returns(_scrape_html(raw_content, GranicusHtmlUrl,
                            GranicusPlace(GranicusHtmlUrl)))

\* CivicClerkSite.scrape (site.py:895-952); uuid4 is drawn per element
ScrapeCivicClerk ==
    /\ comp = "civicclerk"
    /\ \E uuids \in SeqOfLen(UUIDs, MaxItems) :
           Returns(CivicClerkAssets(events(raw_content, uuids),
                                    CivicClerkUrl.host[1], CivicClerkUrl,
                                    "Town X", ClockNow(now)))

\* legistar Site.scrape (site.py:77-146)
ScrapeLegistar ==
    /\ comp = "legistar"
    /\ Returns(LegistarScrape(raw_content.events, raw_content.start_date,
                              raw_content.end_date, LegistarUrl.host[1],
                              "City Y", Clocks[now]))

\* civic_plus Site.scrape (site.py:75-116)
ScrapeCivicPlus ==
    /\ comp = "civicplus"
    /\ Returns(_build_asset_collection(raw_content, CivicPlusUrl, "townz"))

NextAssets ==
    \/ Tick
    \/ ScrapeGranicusRss
    \/ ScrapeGranicusHtml
    \/ ScrapeCivicClerk
    \/ ScrapeLegistar
    \/ ScrapeCivicPlus

SpecAssets == InitAssets /\ [][NextAssets]_vars

(***************************************************************************)
(* C1.  Every record _transform_to_standard_format emits corresponds, in   *)
(* order, to an input record with a non-empty name and a date string that  *)
(* is present, and the date it carries is derived from that date string    *)
(* alone: calls on the same input list return the same dates whatever the  *)
(* wall clock reads.                                                       *)
(***************************************************************************)
Increasing(f) == \A a, b \in DOMAIN f : a < b => f[a] < f[b]

C1_OutputsFromInputs(out) ==
    \E f \in [DOMAIN out -> DOMAIN extracted_items] :
        /\ Increasing(f)
        /\ \A j \in DOMAIN out :
               /\ extracted_items[f[j]].name # <<>>
               /\ extracted_items[f[j]].date # <<>>
               /\ out[j].asset_name = extracted_items[f[j]].name
               /\ out[j].meeting_date # FormatDate(NoDate)

C1_DatesOf(out) == [j \in DOMAIN out |-> out[j].meeting_date]

C1_DateFromOwnDateString ==
    /\ \A r \in DOMAIN std_runs : C1_OutputsFromInputs(std_runs[r])
    /\ \A r1, r2 \in DOMAIN std_runs :
           C1_DatesOf(std_runs[r1]) = C1_DatesOf(std_runs[r2])

\* every Asset of every scrape made so far
EmittedAssets ==
    UNION {{asset_runs[r][i] : i \in DOMAIN asset_runs[r]} : r \in DOMAIN asset_runs}

\* two Assets, one from each of two scrapes, that stand for the same document
\* of the same meeting
SameMeeting(a, b) ==
    /\ a.asset_name = b.asset_name
    /\ a.committee_name = b.committee_name
    /\ a.asset_type = b.asset_type

\* f agrees on the same meetings of any two scrapes of the same content
AgreesAcrossRuns(f(_)) ==
    \A r1, r2 \in DOMAIN asset_runs :
        Len(asset_runs[r1]) = Len(asset_runs[r2]) =>
            \A i \in DOMAIN asset_runs[r1] :
                SameMeeting(asset_runs[r1][i], asset_runs[r2][i]) =>
                    f(asset_runs[r1][i]) = f(asset_runs[r2][i])

(***************************************************************************)
(* C2.  Every Asset emitted by a scrape of any extractor has a url and a   *)
(* meeting_date: a record that yields no url or no date is not emitted.    *)
(***************************************************************************)
C2_AssetsHaveUrlAndDate ==
    \A a \in EmittedAssets : a.url # NoUrl /\ a.meeting_date # NoDate

(***************************************************************************)
(* C3.  No meeting_date comes from the wall clock: two scrapes of the same *)
(* content give every meeting the same meeting_date, whatever the clock    *)
(* reads when they run.                                                    *)
(***************************************************************************)
C3_MeetingDate(a) == a.meeting_date

C3_NoWallClockDate == AgreesAcrossRuns(C3_MeetingDate)

(***************************************************************************)
(* C4.  meeting_id is deterministic: two scrapes of the same content give  *)
(* every meeting the same meeting_id, on every extraction path.            *)
(***************************************************************************)
C4_MeetingId(a) == a.meeting_id

C4_MeetingIdDeterministic == AgreesAcrossRuns(C4_MeetingId)

(***************************************************************************)
(* C5.  The RSS entry titled "City Council - Agenda - Jan 15, 2024" whose  *)
(* link carries ID=4521 yields committee_name "City Council", asset_type   *)
(* "Agenda", meeting_date 2024-01-15 and meeting_id                        *)
(* "granicus_<instance>_4521"; and every title of at least three " - "     *)
(* separated parts yields the committee from its first part, the asset     *)
(* type from its second and, when it parses, the date from its last.       *)
(***************************************************************************)
C5_IsExample(a) ==
    /\ a.asset_name = "City Council - Agenda - Jan 15, 2024"
    /\ HasKey(a.url.query, "ID")
    /\ FirstValue(a.url.query, "ID") = "4521"

C5_FromEntry(a, e) ==
    LET parts == SplitDash(Strip(e.title))
        last  == parse_datetime_formats(Strip(parts[Len(parts)]),
                                        rss_title_formats)
    IN (a.asset_name = Render(Strip(e.title)) /\ a.url = e.link
        /\ Len(parts) >= 3) =>
           /\ a.committee_name = standardize_committee_name(Strip(parts[1]))
           /\ a.asset_type = Render(Strip(parts[2]))
           /\ last # NoDateTime => a.meeting_date = last.date

C5_RssTitleExample ==
    comp = "rss" =>
        \A a \in EmittedAssets :
            /\ C5_IsExample(a) =>
                   /\ a.committee_name = "City Council"
                   /\ a.asset_type = "Agenda"
                   /\ a.meeting_date = Date(2024, 1, 15)
                   /\ a.meeting_id = "granicus_" \o GranicusHost[1] \o "_4521"
            /\ \A i \in DOMAIN raw_content : C5_FromEntry(a, raw_content[i])

(***************************************************************************)
(* C6.  The meeting_id of every emitted Asset is                           *)
(* "{platform}_{instance}_{raw_id}" when the meeting has a raw id (for     *)
(* Granicus the value of the first key of the priority list that the link  *)
(* carries) and otherwise the hash of (place, name, ISO datetime); it is   *)
(* never absent and never the bare raw id.                                 *)
(***************************************************************************)
C6_RawIds == {"4521", "77", "88", "5", "9", "31", "12", "40", "101", "102",
              "103", "104", "m-12", "m-13", "900", "901", "902", "01152024-7",
              "02012024-8"} \cup UUIDs

C6_Platform == CASE comp \in {"rss", "html"} -> "granicus_" \o GranicusHost[1]
                 [] comp = "civicclerk" -> "civicclerk_" \o CivicClerkUrl.host[1]
                 [] comp = "legistar" -> "legistar_" \o LegistarUrl.host[1]
                 [] OTHER -> "civicplus_" \o CivicPlusUrl.host[1]

C6_Hash(a) ==
    asset_generated_id(a.place \o "-" \o a.asset_name \o "-"
        \o IsoFormat(DateTime(a.meeting_date,
                              IF a.meeting_time = NoTime THEN Midnight
                              ELSE a.meeting_time)))

C6_MeetingIdFormat ==
    comp \in {"rss", "html", "civicclerk", "legistar", "civicplus"} =>
        \A a \in EmittedAssets :
            /\ a.meeting_id # NULL
            /\ a.meeting_id \notin C6_RawIds
            /\ \/ \E raw \in C6_RawIds : a.meeting_id = C6_Platform \o "_" \o raw
               \/ a.meeting_id = C6_Hash(a)
            /\ (comp \in {"rss", "html"} /\ _extract_meeting_id(a.url) # NULL) =>
                   a.meeting_id = C6_Platform \o "_" \o _extract_meeting_id(a.url)


(***************************************************************************)
(* Pages, as BeautifulSoup sees them.  An element has a tag, its classes,  *)
(* its id, the text written directly in it (before its children), its href *)
(* and its children.  Every <a> of a page carries an href; no link wraps   *)
(* an image.                                                               *)
(***************************************************************************)
Elem(tag, cls, id, text, href, kids) ==
    [tag |-> tag, cls |-> cls, id |-> id, text |-> text, href |-> href,
     kids |-> kids]

NoElem == Elem("", {}, "", <<>>, NoUrl, <<>>)            \* find() gave None

RECURSIVE Below(_)
\* the elements below a list of siblings in document order, each with the
\* siblings that follow it
Below(kids) ==
    IF kids = <<>> THEN <<>>
    ELSE <<[el |-> kids[1], next |-> Tail(kids)]>>
         \o Below(kids[1].kids) \o Below(Tail(kids))

RECURSIVE Descendants(_)
\* the elements below a list of siblings in document order
Descendants(kids) ==
    IF kids = <<>> THEN <<>>
    ELSE <<kids[1]>> \o Descendants(kids[1].kids) \o Descendants(Tail(kids))

\* F(value), the value being computed once
With(value, F(_)) == CHOOSE y \in {F(x) : x \in {value}} : TRUE

\* tag.find_all(...): the elements below e that satisfy the test
find_all(e, Test(_)) == SelectSeq(Descendants(e.kids), Test)

\* the same, each element with the siblings that follow it
find_all_at(e, Test(_)) == SelectSeq(Below(e.kids), LAMBDA p : Test(p.el))

\* tag.find_all(..., recursive=False)
find_children(e, Test(_)) == SelectSeq(e.kids, Test)

\* the first element of a list, NoElem when there is none
First(s) == Head(s \o <<NoElem>>)

\* tag.find(...)
find(e, Test(_)) == First(find_all(e, Test))

\* name in tags and class_ in classes
Is(e, tags, classes) == e.tag \in tags /\ e.cls \cap classes # {}

RECURSIVE Strings(_)
\* the strings of an element in document order, each stripped, the empty
\* ones left out
Strings(e) ==
    LET own == Strip(e.text)
        RECURSIVE OfKids(_)
        OfKids(kids) == IF kids = <<>> THEN <<>>
                        ELSE Strings(kids[1]) \o OfKids(Tail(kids))
    IN (IF own = <<>> THEN <<>> ELSE <<own>>) \o OfKids(e.kids)

RECURSIVE JoinTexts(_, _)
JoinTexts(ts, sep) ==
    IF ts = <<>> THEN <<>>
    ELSE IF Len(ts) = 1 THEN ts[1]
    ELSE ts[1] \o sep \o JoinTexts(Tail(ts), sep)

\* tag.get_text(separator=sep, strip=True)
get_text(e, sep) == JoinTexts(Strings(e), sep)

RECURSIVE SplitWords(_)
\* the words of a text: its runs between whitespace, each as a string
SplitWords(t) ==
    LET s == StripLeft(ReplaceNbsp(t))
        n == IF \E i \in DOMAIN s : s[i] = SP
             THEN (CHOOSE i \in DOMAIN s :
                       s[i] = SP /\ \A j \in 1..(i - 1) : s[j] # SP) - 1
             ELSE Len(s)
    IN IF s = <<>> THEN <<>>
       ELSE <<Render(SubSeq(s, 1, n))>> \o SplitWords(SubSeq(s, n + 1, Len(s)))

RECURSIVE Flatten(_)
Flatten(ss) == IF ss = <<>> THEN <<>> ELSE ss[1] \o Flatten(Tail(ss))

\* the concatenation of F(x) for the x of s, in order
ConcatMap(s, F(_)) ==
    With(s, LAMBDA v : With([i \in DOMAIN v |-> F(v[i])], Flatten))

(***************************************************************************)
(* What the layout scrapers test on a link.  Link texts are made of the    *)
(* words below and hrefs name one script, so a keyword occurs in a text    *)
(* exactly when it is one of its words, and a script name occurs in a href *)
(* exactly when it is its path.                                            *)
(***************************************************************************)
\* str.lower() on the words of link texts, headers, paths and query keys
Lower(s) ==
    CASE s = "Agenda" -> "agenda"          [] s = "AGENDA" -> "agenda"
      [] s = "Minutes" -> "minutes"        [] s = "Packet" -> "packet"
      [] s = "Video" -> "video"            [] s = "Watch" -> "watch"
      [] s = "Media" -> "media"            [] s = "View" -> "view"
      [] s = "Event" -> "event"            [] s = "Download" -> "download"
      [] s = "Name" -> "name"              [] s = "Date" -> "date"
      [] s = "AgendaViewer.php" -> "agendaviewer.php"
      [] s = "MinutesViewer.php" -> "minutesviewer.php"
      [] s = "MediaPlayer.php" -> "mediaplayer.php"
      [] s = "ViewEvent.php" -> "viewevent.php"
      [] s = "DocumentViewer.php" -> "documentviewer.php"
      [] s = "Clip_ID" -> "clip_id"
      [] OTHER -> s

\* keyword in text.lower(), for a one-word keyword
TextHas(t, keyword) ==
    \E i \in DOMAIN t : t[i].k = "w" /\ Lower(t[i].s) = keyword

TextHasAny(t, keywords) == \E kw \in keywords : TextHas(t, kw)

\* 'view event' in text.lower()
TextHasViewEvent(t) ==
    \E i \in DOMAIN t :
        /\ i + 2 <= Len(t)
        /\ t[i].k = "w" /\ Lower(t[i].s) = "view"
        /\ t[i + 1] = SP
        /\ t[i + 2].k = "w" /\ Lower(t[i + 2].s) = "event"

\* script in href.lower()
HrefHas(url, script) == Lower(url.path) = script

\* re.search(r'[?&](?:k1|k2|...)=(\d+)', href, re.IGNORECASE) over the links
\* of a row, first match wins; "" when no link matches
IdSource(links, keys) ==
    LET Hit(u) == \E i \in DOMAIN u.query : Lower(u.query[i][1]) \in keys
        hits == SelectSeq(links, LAMBDA a : Hit(a.href))
    IN IF hits = <<>> THEN ""
       ELSE LET q == hits[1].href.query
            IN q[CHOOSE i \in DOMAIN q :
                     /\ Lower(q[i][1]) \in keys
                     /\ \A j \in 1..(i - 1) : Lower(q[j][1]) \notin keys][2]

\* re.search(r'(\d{1,2}:\d{2}\s*(?:AM|PM|am|pm)?)', text): the match, or <<>>
RowTime(t) ==
    LET Core(i) == IsTimeCore(t, i) /\ t[i + 1] = Pn(":")
    IN IF \E i \in DOMAIN t : Core(i)
       THEN LET i == CHOOSE i \in DOMAIN t :
                         Core(i) /\ \A j \in 1..(i - 1) : ~Core(j)
            IN SubSeq(t, i, i + TimeMatchLen(t, i) - 1)
       ELSE <<>>

IsLink(e) == e.tag = "a"
IsTd(e) == e.tag = "td"
IsListingTable(e) == Is(e, {"table"}, {"listingTable"})
IsListingRow(e) == Is(e, {"tr"}, {"listingRow", "listingRowAlt"})
IsPanelHeader(e) ==
    Is(e, {"div"}, {"CollapsiblePanelTab", "CollapsiblePanelTabNotSelected"})
IsTextContainer(e) == e.tag \in {"a", "h3", "span", "div"}

\* the text of a panel header (type1.py:34-37, type2.py:88-89)
HeaderText(header) ==
    LET text_container == find(header, IsTextContainer)
    IN IF text_container # NoElem THEN get_text(text_container, <<>>)
       ELSE get_text(header, <<>>)

IsTabbedPanels(e) == Is(e, {"div"}, {"TabbedPanels"})
IsTabGroup(e) == Is(e, {"ul"}, {"TabbedPanelsTabGroup"})
IsContentGroup(e) == Is(e, {"div"}, {"TabbedPanelsContentGroup"})
IsYearTab(e) == Is(e, {"li"}, {"TabbedPanelsTab"})
IsYearContent(e) == Is(e, {"div"}, {"TabbedPanelsContent"})
IsPanelContent(e) == Is(e, {"div"}, {"CollapsiblePanelContent"})
IsCollapsiblePanel(e) == Is(e, {"div"}, {"CollapsiblePanel"})

(***************************************************************************)
(* platforms/granicus/type1.py                                             *)
(***************************************************************************)
\* GranicusType1Scraper._extract_meeting_from_row (type1.py:130-201): the
\* raw records of a row, none (None returned) or one
Type1_extract_meeting_from_row(row_element) ==
    LET cells == find_all(row_element, IsTd)
        name  == ReplaceNbsp(get_text(cells[1], <<SP>>))
        date  == ReplaceNbsp(get_text(cells[2], <<>>))
        all_links_in_row == find_all(row_element, IsLink)
        \* cell.find('a', href=True, text=re.compile(keyword, re.I)), and
        \* cell.find('a', href=True) when that finds nothing
        CellLink(cell, keyword) ==
            LET by_text == find(cell, LAMBDA e : IsLink(e)
                                                 /\ TextHas(e.text, keyword))
            IN IF by_text # NoElem THEN by_text ELSE find(cell, IsLink)
        agenda  == IF Len(cells) > 2 THEN CellLink(cells[3], "agenda").href
                   ELSE NoUrl
        minutes == IF Len(cells) > 3 THEN CellLink(cells[4], "minutes").href
                   ELSE NoUrl
        videos  == SelectSeq(all_links_in_row, LAMBDA a :
                       \/ a.href.path \in {"ViewEvent.php", "MediaPlayer.php"}
                       \/ TextHasAny(a.text, {"video", "watch", "media"})
                       \/ TextHasViewEvent(a.text))
        packets == SelectSeq(all_links_in_row,
                             LAMBDA a : TextHas(a.text, "packet"))
    IN IF Len(cells) < 2 THEN <<>>
       ELSE <<RawItem(SplitWords(name), date,
                      RowTime(name \o <<SP>> \o date),
                      IdSource(all_links_in_row,
                               {"clip_id", "event_id", "meeting_id"}),
                      agenda, minutes, First(videos).href,
                      First(packets).href)>>

\* the rows of the first listingTable of a section (type1.py:69-75, 89-95,
\* 107-111, 117-122); none when the section has no listingTable
Type1TableRows(section) ==
    ConcatMap(find_all(find(section, IsListingTable), IsListingRow),
              Type1_extract_meeting_from_row)

\* GranicusType1Scraper._extract_meeting_details_internal (type1.py:15-128)
Type1_extract_meeting_details_internal(soup, panel) ==
    LET panels_headers == find_all_at(soup, IsPanelHeader)
        matching    == SelectSeq(panels_headers,
                                 LAMBDA p : HeaderText(p.el) = panel)
        \* panel_header_div.find_next_sibling('div', class_=...)
        content_div == First(SelectSeq(matching[1].next, IsPanelContent))
        tabbed_panels_container_div == find(content_div, IsTabbedPanels)
        year_tabs_ul == find(tabbed_panels_container_div, IsTabGroup)
        year_contents_group_div ==
            find(tabbed_panels_container_div, IsContentGroup)
        year_tabs_li_elements == find_children(year_tabs_ul, IsYearTab)
        year_content_divs ==
            find_children(year_contents_group_div, IsYearContent)
    IN IF panel = <<>> THEN <<>>
       ELSE IF panels_headers = <<>> THEN <<>>
       ELSE IF matching = <<>> THEN <<>>
       ELSE IF content_div = NoElem THEN <<>>
       ELSE IF tabbed_panels_container_div = NoElem
            THEN Type1TableRows(content_div)
       ELSE IF year_tabs_ul # NoElem /\ year_contents_group_div # NoElem
            THEN IF year_tabs_li_elements = <<>> \/ year_content_divs = <<>>
                 THEN Type1TableRows(tabbed_panels_container_div)
                 ELSE ConcatMap(SubSeq(year_content_divs, 1,
                                       Min(Len(year_tabs_li_elements),
                                           Len(year_content_divs))),
                                Type1TableRows)
       ELSE Type1TableRows(tabbed_panels_container_div)

(***************************************************************************)
(* platforms/granicus/type2.py                                             *)
(***************************************************************************)
\* cp_panel.find(['div','h2','h3'], class_=['CollapsiblePanelTab', ...])
IsPanelHeading(e) ==
    Is(e, {"div", "h2", "h3"},
       {"CollapsiblePanelTab", "CollapsiblePanelTabNotSelected"})

\* GranicusType2Scraper._extract_links_from_cells (type2.py:180-252): the
\* four links of a row, as <<agenda, minutes, video, packet>>; every With is
\* one assignment of the method
Type2_extract_links_from_cells(cells, all_links_in_row) ==
    With(First(SelectSeq(all_links_in_row, LAMBDA a :
             \/ HrefHas(a.href, "viewevent.php")
             \/ HrefHas(a.href, "mediaplayer.php")
             \/ TextHasAny(a.text, {"video", "watch", "media", "recording"})
             \/ TextHasViewEvent(a.text))).href,
         LAMBDA video_url :
    With(First(SelectSeq(all_links_in_row,
                         LAMBDA a : TextHas(a.text, "packet"))).href,
         LAMBDA packet_url :
    With(First(SelectSeq(all_links_in_row, LAMBDA a :
             /\ TextHas(a.text, "agenda")
                \/ HrefHas(a.href, "agendaviewer.php")
             /\ packet_url # a.href
             /\ ~TextHasAny(a.text, {"packet", "minutes"}))).href,
         LAMBDA agenda0 :
    With(First(SelectSeq(all_links_in_row, LAMBDA a :
             \/ TextHas(a.text, "minutes")
             \/ HrefHas(a.href, "minutesviewer.php"))).href,
         LAMBDA minutes0 :
    \* type2.py:230-233: the first link of cell 2, when agenda is missing
    With(IF Len(cells) > 2 THEN find(cells[3], IsLink) ELSE NoElem,
         LAMBDA agenda_cell_link :
    With(IF /\ agenda0 = NoUrl
            /\ agenda_cell_link # NoElem
            /\ agenda_cell_link.href # packet_url
            /\ agenda_cell_link.href # minutes0
         THEN agenda_cell_link.href ELSE agenda0,
         LAMBDA agenda1 :
    \* type2.py:236-239: the first link of cell 3, when minutes is missing
    With(IF Len(cells) > 3 THEN find(cells[4], IsLink) ELSE NoElem,
         LAMBDA minutes_cell_link :
    With(IF /\ minutes0 = NoUrl
            /\ minutes_cell_link # NoElem
            /\ minutes_cell_link.href # agenda1
            /\ minutes_cell_link.href # packet_url
         THEN minutes_cell_link.href ELSE minutes0,
         LAMBDA minutes1 :
    \* type2.py:243-252: agenda and minutes are the same link
    LET same == agenda1 # NoUrl /\ agenda1 = minutes1
        is_minutes_specific == HrefHas(minutes1, "minutesviewer.php")
        is_agenda_specific  == HrefHas(agenda1, "agendaviewer.php")
    IN IF ~same THEN <<agenda1, minutes1, video_url, packet_url>>
       ELSE IF is_agenda_specific /\ ~is_minutes_specific
            THEN <<agenda1, minutes1, video_url, packet_url>>
       ELSE IF is_minutes_specific /\ ~is_agenda_specific
            THEN <<NoUrl, minutes1, video_url, packet_url>>
       ELSE <<agenda1, NoUrl, video_url, packet_url>>))))))))

\* one row of _extract_meetings_from_panel_content (type2.py:144-176)
Type2Row(row) ==
    With(find_all(row, IsTd), LAMBDA cells :
    With(find_all(row, IsLink), LAMBDA all_links_in_row :
    With(Type2_extract_links_from_cells(cells, all_links_in_row),
         LAMBDA links :
    LET name == ReplaceNbsp(get_text(cells[1], <<SP>>))
        date == ReplaceNbsp(get_text(cells[2], <<>>))
    IN IF Len(cells) < 2 THEN <<>>
       ELSE IF name = <<>> \/ date = <<>> THEN <<>>
       ELSE <<RawItem(SplitWords(name), date,
                      RowTime(name \o <<SP>> \o date),
                      IdSource(all_links_in_row,
                               {"clip_id", "event_id", "meeting_id"}),
                      links[1], links[2], links[3], links[4])>>)))

\* GranicusType2Scraper._extract_meetings_from_panel_content
\* (type2.py:129-178)
Type2_extract_meetings_from_panel_content(panel_content_div) ==
    ConcatMap(find_all(find(panel_content_div, IsListingTable), IsListingRow),
              Type2Row)

RECURSIVE Type2PanelsOfYear(_, _)
\* the loop over the CollapsiblePanels of one year's content
\* (type2.py:82-106): a panel without heading or with another name is
\* passed over, so is the named panel whose content has TabbedPanels of its
\* own; the first other panel of that name ends the loop
Type2PanelsOfYear(panels, panel) ==
    IF panels = <<>> THEN <<>>
    ELSE LET header_div == find(panels[1], IsPanelHeading)
             panel_content_div == find(panels[1], IsPanelContent)
         IN IF header_div = NoElem \/ HeaderText(header_div) # panel
            THEN Type2PanelsOfYear(Tail(panels), panel)
            ELSE IF /\ panel_content_div # NoElem
                    /\ find(panel_content_div, IsTabbedPanels) # NoElem
            THEN Type2PanelsOfYear(Tail(panels), panel)
            ELSE Type2_extract_meetings_from_panel_content(panel_content_div)

RECURSIVE Type2CurrentView(_, _)
\* the same loop on a page without year content (type2.py:34-52), where
\* TabbedPanels inside the named panel end the extraction
Type2CurrentView(panels, panel) ==
    IF panels = <<>> THEN <<>>
    ELSE LET header_div == find(panels[1], IsPanelHeading)
             panel_content_div == find(panels[1], IsPanelContent)
         IN IF header_div = NoElem \/ HeaderText(header_div) # panel
            THEN Type2CurrentView(Tail(panels), panel)
            ELSE IF /\ panel_content_div # NoElem
                    /\ find(panel_content_div, IsTabbedPanels) # NoElem
            THEN <<>>
            ELSE Type2_extract_meetings_from_panel_content(panel_content_div)

\* GranicusType2Scraper._extract_meeting_details_internal (type2.py:17-127)
Type2_extract_meeting_details_internal(soup, panel) ==
    LET main_tabbed_panels_content_group == find(soup, IsContentGroup)
        year_content_divs ==
            find_children(main_tabbed_panels_content_group, IsYearContent)
    IN IF panel = <<>> THEN <<>>
       ELSE IF main_tabbed_panels_content_group = NoElem
            THEN With(find_all(soup, IsCollapsiblePanel),
                      LAMBDA panels : Type2CurrentView(panels, panel))
       ELSE IF year_content_divs = <<>> THEN <<>>
       ELSE ConcatMap(year_content_divs, LAMBDA y :
                With(find_all(y, IsCollapsiblePanel),
                     LAMBDA panels : Type2PanelsOfYear(panels, panel)))

(***************************************************************************)
(* platforms/granicus/type3.py                                             *)
(***************************************************************************)
\* the links of a row as Type3 holds them while it classifies
Type3Links(agenda, minutes, video, packet) ==
    [agenda_url |-> agenda, minutes_url |-> minutes, video_url |-> video,
     packet_url |-> packet]

\* one turn of the loop over the links of the row (type3.py:167-195)
Type3Classify(d, a) ==
    IF /\ d.video_url = NoUrl
       /\ \/ HrefHas(a.href, "viewevent.php")
          \/ HrefHas(a.href, "mediaplayer.php")
          \/ TextHasAny(a.text, {"video", "watch", "media", "recording",
                                 "live"})
          \/ TextHasViewEvent(a.text)
    THEN [d EXCEPT !.video_url = a.href]
    ELSE IF d.packet_url = NoUrl /\ TextHas(a.text, "packet")
    THEN [d EXCEPT !.packet_url = a.href]
    ELSE IF /\ d.agenda_url = NoUrl
            /\ TextHas(a.text, "agenda") \/ HrefHas(a.href, "agendaviewer.php")
            /\ ~TextHasAny(a.text, {"packet", "minutes"})
    THEN [d EXCEPT !.agenda_url = a.href]
    ELSE IF /\ d.minutes_url = NoUrl
            /\ TextHas(a.text, "minutes")
               \/ HrefHas(a.href, "minutesviewer.php")
    THEN [d EXCEPT !.minutes_url = a.href]
    ELSE d

RECURSIVE Type3ClassifyAll(_, _)
Type3ClassifyAll(d, links) ==
    IF links = <<>> THEN d
    ELSE Type3ClassifyAll(Type3Classify(d, links[1]), Tail(links))

\* one turn of the loop over the column headers (type3.py:199-217)
Type3ByHeader(d, header, cell) ==
    LET cell_links == find_all(cell, IsLink)
        cell_href  == cell_links[1].href
    IN IF cell_links = <<>> THEN d
       ELSE IF /\ d.agenda_url = NoUrl
               /\ TextHas(header, "agenda") /\ ~TextHas(header, "packet")
       THEN (IF cell_href \notin {d.packet_url, d.minutes_url, d.video_url}
             THEN [d EXCEPT !.agenda_url = cell_href] ELSE d)
       ELSE IF d.minutes_url = NoUrl /\ TextHas(header, "minutes")
       THEN (IF cell_href \notin {d.agenda_url, d.packet_url, d.video_url}
             THEN [d EXCEPT !.minutes_url = cell_href] ELSE d)
       ELSE IF d.packet_url = NoUrl /\ TextHas(header, "packet")
       THEN (IF cell_href \notin {d.agenda_url, d.minutes_url, d.video_url}
             THEN [d EXCEPT !.packet_url = cell_href] ELSE d)
       ELSE IF /\ d.video_url = NoUrl
               /\ TextHasAny(header, {"video", "media", "watch"})
       THEN (IF cell_href \notin {d.agenda_url, d.minutes_url, d.packet_url}
             THEN [d EXCEPT !.video_url = cell_href] ELSE d)
       ELSE d

RECURSIVE Type3ByHeaders(_, _, _, _)
Type3ByHeaders(d, headers_text, cells, i) ==
    IF i > Len(headers_text) THEN d
    ELSE Type3ByHeaders(IF i <= Len(cells)
                        THEN Type3ByHeader(d, headers_text[i], cells[i])
                        ELSE d,
                        headers_text, cells, i + 1)

\* GranicusType3Scraper._extract_links_from_row_links (type3.py:159-225)
Type3_extract_links_from_row_links(all_links_in_row, cells, headers_text) ==
    LET labelled == Type3ClassifyAll(Type3Links(NoUrl, NoUrl, NoUrl, NoUrl),
                                     all_links_in_row)
        inferred == IF /\ headers_text # <<>>
                       /\ labelled.agenda_url = NoUrl
                          \/ labelled.minutes_url = NoUrl
                    THEN Type3ByHeaders(labelled, headers_text, cells, 1)
                    ELSE labelled
    IN IF /\ inferred.agenda_url # NoUrl
          /\ inferred.agenda_url = inferred.minutes_url
          /\ ~HrefHas(inferred.minutes_url, "minutesviewer.php")
       THEN [inferred EXCEPT !.minutes_url = NoUrl]
       ELSE inferred

\* soup.find('div', id=re.compile(r'TabbedPanels?1', re.I))
IsTabbedPanel1(e) == e.tag = "div" /\ e.id \in {"TabbedPanels1", "TabbedPanel1"}
\* find_all('table', id=re.compile(r'pastEvents|upcomingEvents', re.I))
IsEventsTable(e) == e.tag = "table" /\ e.id \in {"pastEvents", "upcomingEvents"}
\* find_all('tr', class_=re.compile(r'listingRow|listingRowAlt|even|odd', re.I))
IsType3Row(e) == Is(e, {"tr"}, {"listingRow", "listingRowAlt", "even", "odd"})
\* table.find('tr', class_=re.compile(r'header|heading', re.I))
IsHeaderRow(e) == Is(e, {"tr"}, {"listingHeader", "header", "heading"})

\* one row of a table (type3.py:110-153); a header that names a column the
\* row does not have raises IndexError, which no page of the model does
Type3Row(row, header_row, headers_text) ==
    LET cells == find_all(row, IsTd)
        Col(word, default) ==
            IF \E i \in DOMAIN headers_text :
                   Render(headers_text[i]) = word
            THEN CHOOSE i \in DOMAIN headers_text :
                     /\ Render(headers_text[i]) = word
                     /\ \A j \in 1..(i - 1) : Render(headers_text[j]) # word
            ELSE default
        name == ReplaceNbsp(get_text(cells[Col("name", 1)], <<SP>>))
        date == ReplaceNbsp(get_text(cells[Col("date", 2)], <<>>))
        all_links_in_row == find_all(row, IsLink)
        d == Type3_extract_links_from_row_links(all_links_in_row, cells,
                                                headers_text)
    IN IF row = header_row THEN <<>>
       ELSE IF Len(cells) < 2 THEN <<>>
       ELSE IF name = <<>> \/ date = <<>> THEN <<>>
       ELSE <<RawItem(SplitWords(name), date,
                      RowTime(name \o <<SP>> \o date),
                      IdSource(all_links_in_row,
                               {"clip_id", "event_id", "meeting_id",
                                "item_id"}),
                      d.agenda_url, d.minutes_url, d.video_url,
                      d.packet_url)>>

\* one table of a section (type3.py:85-153)
Type3Table(table) ==
    LET classed == find_all(table, IsType3Row)
        tbody   == find(table, LAMBDA e : e.tag = "tbody")
        rows    == IF classed # <<>> THEN classed
                   ELSE IF tbody # NoElem
                        THEN find_all(tbody, LAMBDA e : e.tag = "tr")
                   ELSE find_all(table, LAMBDA e : e.tag = "tr")
        header_row == find(table, IsHeaderRow)
        headers == find_all(header_row, LAMBDA e : e.tag \in {"th", "td"})
        \* [th.get_text(strip=True).lower() for th in ...]
        headers_text ==
            [i \in DOMAIN headers |->
                LET t == get_text(headers[i], <<>>)
                IN [j \in DOMAIN t |-> IF t[j].k = "w" THEN Wd(Lower(t[j].s))
                                       ELSE t[j]]]
    IN ConcatMap(rows, LAMBDA row : Type3Row(row, header_row, headers_text))

\* the tables of one content section (type3.py:71-83)
Type3Section(content_section) ==
    LET listing == find_all(content_section, IsListingTable)
    IN ConcatMap(IF listing # <<>> THEN listing
                 ELSE find_all(content_section, IsEventsTable),
                 Type3Table)

\* GranicusType3Scraper._extract_meeting_details_internal (type3.py:19-157)
Type3_extract_meeting_details_internal(soup, panel) ==
    LET by_id == find(soup, IsTabbedPanel1)
        year_tab_panel_container ==
            IF by_id # NoElem THEN by_id ELSE find(soup, IsTabbedPanels)
        year_tabs_ul == find(year_tab_panel_container, IsTabGroup)
        year_contents_group_div ==
            find(year_tab_panel_container, IsContentGroup)
        year_tabs_li_elements == find_children(year_tabs_ul, IsYearTab)
        year_content_divs ==
            find_children(year_contents_group_div, IsYearContent)
        content_sections_to_parse ==
            IF year_tab_panel_container = NoElem THEN <<soup>>
            ELSE IF year_tabs_ul # NoElem /\ year_contents_group_div # NoElem
                 THEN IF /\ Len(year_tabs_li_elements) = Len(year_content_divs)
                         /\ year_tabs_li_elements # <<>>
                      THEN year_content_divs
                      ELSE IF year_content_divs # <<>> THEN year_content_divs
                      ELSE <<year_tab_panel_container>>
            ELSE <<year_tab_panel_container>>
    IN ConcatMap(content_sections_to_parse, Type3Section)

(***************************************************************************)
(* platforms/granicus/type4.py.  No element of a page carries a data-label *)
(* attribute.                                                              *)
(***************************************************************************)
\* one <li> of the list (type4.py:163-248)
Type4Item(list_item) ==
    LET name_div == find(list_item, LAMBDA e : Is(e, {"div"}, {"archive-name"}))
        name_text_candidate ==
            First(find_children(list_item,
                                LAMBDA e : e.tag \in {"span", "div"}))
        \* get_text(strip=True).replace('\xa0', '')
        NameOf(e) == SelectSeq(get_text(e, <<>>), LAMBDA tok : tok # NBSP)
        name == IF name_div # NoElem THEN NameOf(name_div)
                ELSE NameOf(name_text_candidate)
        date == get_text(find(list_item,
                              LAMBDA e : Is(e, {"div"}, {"archive-date"})),
                         <<>>)
        all_links_in_item == find_all(list_item, IsLink)
        \* the link of the div of a class (type4.py:213-221)
        InDiv(div_class) ==
            find(find(list_item, LAMBDA e : Is(e, {"div"}, {div_class})),
                 IsLink)
        ByText(Test(_)) == First(SelectSeq(all_links_in_item, Test)).href
        agenda  == IF InDiv("archive-agenda") # NoElem
                   THEN InDiv("archive-agenda").href
                   ELSE ByText(LAMBDA a : TextHas(a.text, "agenda")
                                          /\ ~TextHas(a.text, "packet"))
        packet  == IF InDiv("archive-packet") # NoElem
                   THEN InDiv("archive-packet").href
                   ELSE ByText(LAMBDA a : TextHas(a.text, "packet"))
        minutes == IF InDiv("archive-minutes") # NoElem
                   THEN InDiv("archive-minutes").href
                   ELSE ByText(LAMBDA a : TextHas(a.text, "minutes"))
        video   == IF InDiv("archive-video") # NoElem
                   THEN InDiv("archive-video").href
                   ELSE ByText(LAMBDA a :
                            \/ TextHasAny(a.text, {"video", "watch", "media"})
                            \/ a.href.path \in {"ViewEvent.php",
                                                "MediaPlayer.php"})
        \* the id is looked for in the links of the four divs, in the order
        \* agenda, packet, minutes, video
        in_divs == SelectSeq(<<InDiv("archive-agenda"),
                               InDiv("archive-packet"),
                               InDiv("archive-minutes"),
                               InDiv("archive-video")>>,
                             LAMBDA a : a # NoElem)
    IN IF "table-row--head" \in list_item.cls THEN <<>>
       ELSE IF name = <<>> \/ date = <<>> THEN <<>>
       ELSE <<RawItem(SplitWords(name), date, RowTime(date),
                      IdSource(in_divs, {"clip_id", "event_id", "meeting_id"}),
                      agenda, minutes, video, packet)>>

\* GranicusType4Scraper._extract_meetings_from_list_items (type4.py:150-250)
Type4_extract_meetings_from_list_items(meeting_list_element) ==
    LET rows == find_all(meeting_list_element,
                         LAMBDA e : Is(e, {"li"}, {"table-row"}))
    IN ConcatMap(IF rows # <<>> THEN rows
                 ELSE find_children(meeting_list_element,
                                    LAMBDA e : e.tag = "li"),
                 Type4Item)

\* GranicusType4Scraper._extract_from_single_view_or_panel
\* (type4.py:86-148); None and the empty list are both <<>>
Type4_extract_from_single_view_or_panel(soup_section, panel) ==
    LET collapsible_panels == find_all(soup_section, IsCollapsiblePanel)
        named == SelectSeq(collapsible_panels, LAMBDA cp :
                     /\ find(cp, IsPanelHeading) # NoElem
                     /\ HeaderText(find(cp, IsPanelHeading)) = panel)
        target_panel_content_div == find(named[1], IsPanelContent)
        direct  == find(target_panel_content_div,
                        LAMBDA e : Is(e, {"ol", "ul"}, {"responsive-table"}))
        wrapper == find(target_panel_content_div,
                        LAMBDA e : Is(e, {"div"}, {"responsive-table"}))
        meeting_list_container ==
            IF direct # NoElem THEN direct
            ELSE find(wrapper, LAMBDA e : e.tag \in {"ol", "ul"})
    IN IF collapsible_panels = <<>> THEN <<>>
       ELSE IF named = <<>> THEN <<>>
       ELSE IF target_panel_content_div = NoElem THEN <<>>
       ELSE Type4_extract_meetings_from_list_items(meeting_list_container)

\* GranicusType4Scraper._extract_meeting_details_internal (type4.py:19-84)
Type4_extract_meeting_details_internal(soup, panel) ==
    LET main_tabbed_panels_content_group == find(soup, IsContentGroup)
        year_content_divs ==
            find_children(main_tabbed_panels_content_group, IsYearContent)
    IN IF panel = <<>> THEN <<>>
       ELSE IF main_tabbed_panels_content_group = NoElem
            THEN Type4_extract_from_single_view_or_panel(soup, panel)
       ELSE ConcatMap(year_content_divs, LAMBDA y :
                Type4_extract_from_single_view_or_panel(y, panel))

(***************************************************************************)
(* platforms/granicus/base.py: one strategy on one page.                   *)
(***************************************************************************)
Strategies == {"Type1", "Type2", "Type3", "Type4"}

\* _extract_meeting_details_internal of the strategy's class
_extract_meeting_details_internal(strategy, soup, panel) ==
    CASE strategy = "Type1" -> Type1_extract_meeting_details_internal(soup, panel)
      [] strategy = "Type2" -> Type2_extract_meeting_details_internal(soup, panel)
      [] strategy = "Type3" -> Type3_extract_meeting_details_internal(soup, panel)
      [] strategy = "Type4" -> Type4_extract_meeting_details_internal(soup, panel)

\* GranicusBaseScraper.extract_and_process_meetings (base.py:274-302); the
\* None it returns for "nothing found" is the empty list here
extract_and_process_meetings(strategy, html, url, panel, today, has_dateutil) ==
    With(_extract_meeting_details_internal(strategy, html, panel),
         LAMBDA raw_meetings :
             IF raw_meetings = <<>> THEN <<>>
             ELSE _transform_to_standard_format(raw_meetings, url,
                                                SplitWords(panel), today,
                                                has_dateutil))

\* an exception inside the try block of extract_and_process_meetings: none,
\* one raised by the extraction, one raised by the standardization
Failures == {"no", "extraction", "standardization"}

\* what a call gives its caller: none is TRUE for None, meetings the list
\* returned otherwise, raised TRUE when an exception leaves the call
Returned(none, meetings, raised) ==
    [none |-> none, meetings |-> meetings, raised |-> raised]

\* extract_and_process_meetings as it would be if it returned the
\* standardized list whatever its length and had no except clause
extract_and_process_returns_unchecked(strategy, html, url, panel, today, has_dateutil, fails) ==
    IF fails # "no" THEN Returned(FALSE, <<>>, TRUE)
    ELSE With(_extract_meeting_details_internal(strategy, html, panel),
              LAMBDA raw_meetings :
                  IF raw_meetings = <<>> THEN Returned(TRUE, <<>>, FALSE)
                  ELSE Returned(FALSE,
                                _transform_to_standard_format(
                                    raw_meetings, url, SplitWords(panel),
                                    today, has_dateutil),
                                FALSE))

\* GranicusBaseScraper.extract_and_process_meetings (base.py:274-302) with
\* None told apart from a list
extract_and_process_returns(strategy, html, url, panel, today, has_dateutil, fails) ==
    IF fails # "no" THEN Returned(TRUE, <<>>, FALSE)
    ELSE With(_extract_meeting_details_internal(strategy, html, panel),
              LAMBDA raw_meetings :
                  IF raw_meetings = <<>> THEN Returned(TRUE, <<>>, FALSE)
                  ELSE With(_transform_to_standard_format(
                                raw_meetings, url, SplitWords(panel), today,
                                has_dateutil),
                            LAMBDA standardized_data :
                                IF standardized_data # <<>>
                                THEN Returned(FALSE, standardized_data, FALSE)
                                ELSE Returned(TRUE, <<>>, FALSE)))

\* GranicusBaseScraper.requires_panel_name alone, were Type3 not to override it
requires_panel_name_base(strategy) == TRUE

\* GranicusBaseScraper.requires_panel_name (base.py:304-312) and its
\* override in GranicusType3Scraper (type3.py:245-252)
requires_panel_name(strategy) == strategy # "Type3"

(***************************************************************************)
(* Pages served to the legacy-layout scrapers.                             *)
(***************************************************************************)
A(text, href) == Elem("a", {}, "", text, href, <<>>)
Div(class, kids) == Elem("div", {class}, "", <<>>, NoUrl, kids)
TextDiv(class, text) == Elem("div", {class}, "", text, NoUrl, <<>>)
Td(text, kids) == Elem("td", {"listItem"}, "", text, NoUrl, kids)
Th(text) == Elem("th", {}, "", text, NoUrl, <<>>)
Tr(class, cells) == Elem("tr", {class}, "", <<>>, NoUrl, cells)
Table(rows) == Elem("table", {"listingTable"}, "", <<>>, NoUrl, rows)
Body(kids) == Elem("body", {}, "", <<>>, NoUrl, kids)

\* a committee panel: its heading and its content
Panel(name, kids) ==
    Div("CollapsiblePanel",
        <<TextDiv("CollapsiblePanelTab", name),
          Div("CollapsiblePanelContent", kids)>>)

\* year tabs: one tab and one content div per year, latest first
Tabbed(years) ==
    Elem("div", {"TabbedPanels"}, "TabbedPanels1", <<>>, NoUrl,
         <<Elem("ul", {"TabbedPanelsTabGroup"}, "", <<>>, NoUrl,
                [i \in DOMAIN years |->
                    Elem("li", {"TabbedPanelsTab"}, "",
                         <<Num(2025 - i, 4)>>, NoUrl, <<>>)]),
           Div("TabbedPanelsContentGroup",
               [i \in DOMAIN years |-> Div("TabbedPanelsContent", years[i])])>>)

Viewer(script, clip) ==
    Url(<<>>, script, <<<<"view_id", "1">>, <<"clip_id", clip>>>>)

L_Agenda        == A(<<Wd("Agenda")>>, Viewer("AgendaViewer.php", "77"))
L_Minutes       == A(<<Wd("Minutes")>>, Viewer("MinutesViewer.php", "77"))
\* both labels on one document
L_MinutesAtAgenda == A(<<Wd("Minutes")>>, Viewer("AgendaViewer.php", "77"))
L_AgendaAtMinutes == A(<<Wd("Agenda")>>, Viewer("MinutesViewer.php", "77"))
L_Download      == A(<<Wd("Download")>>, Viewer("DocumentViewer.php", "77"))
L_Agenda2       == A(<<Wd("Agenda")>>, Viewer("AgendaViewer.php", "42"))
\* the packet of the meeting, under either of its usual labels
L_AgendaPacket  == A(<<Wd("Agenda"), SP, Wd("Packet")>>,
                     Viewer("DocumentViewer.php", "90"))
L_Packet        == A(<<Wd("Packet")>>, Viewer("DocumentViewer.php", "90"))

T_RegularMeeting == <<Wd("Regular"), SP, Wd("Meeting")>>
T_SpecialSession == <<Wd("Special"), SP, Wd("Session")>>
T_Planning       == <<Wd("Planning")>>
T_Council        == <<Wd("City"), SP, Wd("Council")>>

\* a meeting as a page shows it: its date text and the links of its agenda
\* and minutes columns
Meeting(name, date, agenda_links, minutes_links) ==
    [name |-> name, date |-> date, agenda_links |-> agenda_links,
     minutes_links |-> minutes_links]

Meetings ==
    { Meeting(T_RegularMeeting, T_Jan15_2024, a, m) :
          a \in {<<>>, <<L_Agenda>>, <<L_AgendaAtMinutes>>, <<L_Download>>},
          m \in {<<>>, <<L_Minutes>>, <<L_MinutesAtAgenda>>, <<L_Download>>} }
    \cup { Meeting(T_RegularMeeting, T_TBD, <<L_Agenda>>, <<L_Minutes>>) }
    \cup { Meeting(T_RegularMeeting, T_Jan15_2024, a, <<L_Minutes>>) :
               a \in {<<L_AgendaPacket>>, <<L_Agenda, L_AgendaPacket>>,
                      <<L_Packet>>} }

\* the meeting of the earlier year
EarlierMeeting == Meeting(T_SpecialSession, T_Slash, <<L_Agenda2>>, <<>>)

\* a meeting as a row of a listingTable
Row(m) ==
    Tr("listingRow", <<Td(m.name, <<>>), Td(m.date, <<>>),
                       Td(<<>>, m.agenda_links), Td(<<>>, m.minutes_links)>>)

HeaderRow ==
    Tr("listingHeader", <<Th(<<Wd("Name")>>), Th(<<Wd("Date")>>),
                          Th(<<Wd("Agenda")>>), Th(<<Wd("Minutes")>>)>>)

\* a meeting as an item of a responsive-table list
Item(m) ==
    Elem("li", {"table-row"}, "", <<>>, NoUrl,
         <<TextDiv("archive-name", m.name), TextDiv("archive-date", m.date),
           Div("archive-agenda", m.agenda_links),
           Div("archive-minutes", m.minutes_links)>>)

List(items) == Elem("ol", {"responsive-table"}, "", <<>>, NoUrl, items)

Layouts == {"type1", "type2", "type3", "type3_headed", "type4", "empty"}

\* the page of a layout that shows meeting m in its latest year and, where
\* the layout has years, EarlierMeeting in the year before
Page(layout, m) ==
    CASE layout = "type1" ->
             Body(<<Panel(T_Council,
                          <<Tabbed(<< <<Table(<<Row(m)>>)>>,
                                      <<Table(<<Row(EarlierMeeting)>>)>> >>)>>),
                    Panel(T_Planning, <<Tabbed(<< <<Table(<<>>)>> >>)>>)>>)
      [] layout = "type2" ->
             Body(<<Tabbed(<< <<Panel(T_Council, <<Table(<<Row(m)>>)>>),
                                Panel(T_Planning, <<Table(<<>>)>>)>>,
                              <<Panel(T_Council,
                                      <<Table(<<Row(EarlierMeeting)>>)>>)>> >>)>>)
      [] layout = "type3" ->
             Body(<<Tabbed(<< <<Table(<<Row(m)>>)>>,
                              <<Table(<<Row(EarlierMeeting)>>)>> >>)>>)
      [] layout = "type3_headed" ->
             Body(<<Table(<<HeaderRow, Row(m)>>)>>)
      [] layout = "type4" ->
             Body(<<Tabbed(<< <<Panel(T_Council, <<List(<<Item(m)>>)>>)>>,
                              <<Panel(T_Council,
                                      <<List(<<Item(EarlierMeeting)>>)>>)>> >>)>>)
      [] layout = "empty" -> Body(<<>>)

Pages == { Page(layout, m) : layout \in Layouts, m \in Meetings }

PanelNames == {<<>>, T_Council, T_Planning}

(***************************************************************************)
(* The legacy-layout component: a strategy is called on a page directly    *)
(* (comp = "legacy"), or the dispatch works through its strategy list      *)
(* (comp = "dispatch").                                                    *)
(***************************************************************************)
InitLegacy ==
    /\ comp \in {"legacy", "dispatch"}
    /\ now = 1
    /\ dateutil_ok = TRUE
    /\ TransformIdle
    /\ AssetsIdle
    /\ SignatureIdle
    /\ RequestIdle
    /\ html_content \in Pages
    /\ panel_name \in PanelNames
    /\ attempts = <<>>
    /\ tried = <<>>
    /\ next_strategy = IF comp = "dispatch" THEN 1 ELSE 0
    /\ dispatch_result = <<>>

\* scraper.extract_and_process_meetings(html_content, url, panel_name) on a
\* scraper of one of the four classes
ExtractAndProcess ==
    /\ comp = "legacy"
    /\ Len(attempts) < MaxCalls
    /\ \E strategy \in Strategies, fails \in Failures :
       \E returned \in {extract_and_process_returns(
                            strategy, html_content, SiteUrl, panel_name,
                            Clocks[now], dateutil_ok, fails)} :
           attempts' = Append(attempts,
               [strategy |-> strategy,
                fails    |-> fails,
                none     |-> returned.none,
                raised   |-> returned.raised,
                result   |-> returned.meetings])
    /\ UNCHANGED <<comp, now, dateutil_ok, transform_vars, asset_vars,
                   html_content, panel_name, tried, next_strategy,
                   dispatch_result, signature_vars,
                   request_vars>>

\* the order in which the dispatch tries the strategies
dispatch_order == <<"Type1", "Type2", "Type4", "Type3">>

Dispatching ==
    /\ comp = "dispatch"
    /\ next_strategy \in DOMAIN dispatch_order
    /\ dispatch_result = <<>>

\* the dispatch passes over a strategy that requires a panel name when none
\* was supplied
DispatchSkip ==
    /\ Dispatching
    /\ requires_panel_name(dispatch_order[next_strategy]) /\ panel_name = <<>>
    /\ next_strategy' = next_strategy + 1
    /\ UNCHANGED <<comp, now, dateutil_ok, transform_vars, asset_vars,
                   html_content, panel_name, attempts, tried, dispatch_result,
                   signature_vars,
                   request_vars>>

\* the dispatch invokes the next strategy, and stops when its result is
\* not empty
DispatchTry ==
    /\ Dispatching
    /\ ~(requires_panel_name(dispatch_order[next_strategy])
         /\ panel_name = <<>>)
    /\ \E strategy \in {dispatch_order[next_strategy]} :
       \E result \in {extract_and_process_meetings(
                          strategy, html_content, SiteUrl, panel_name,
                          Clocks[now], dateutil_ok)} :
          /\ tried' = Append(tried, [strategy |-> strategy,
                                     found    |-> result # <<>>])
          /\ dispatch_result' = result
          /\ next_strategy' = IF result # <<>> THEN Len(dispatch_order) + 1
                              ELSE next_strategy + 1
    /\ UNCHANGED <<comp, now, dateutil_ok, transform_vars, asset_vars,
                   html_content, panel_name, attempts, signature_vars,
                   request_vars>>

NextLegacy ==
    \/ ExtractAndProcess
    \/ DispatchSkip
    \/ DispatchTry

SpecLegacy == InitLegacy /\ [][NextLegacy]_vars

(***************************************************************************)
(* C7.  In every standardized record produced by a legacy-layout strategy  *)
(* (Type1, Type2, Type3, Type4), whatever links the row holds, agenda_url  *)
(* and minutes_url are never both set to the same URL.                     *)
(***************************************************************************)
C7_SameDocument(r) == r.agenda_url # NoUrl /\ r.agenda_url = r.minutes_url

C7_AgendaAndMinutesDiffer ==
    /\ \A i \in DOMAIN attempts :
           \A j \in DOMAIN attempts[i].result :
               ~C7_SameDocument(attempts[i].result[j])
    /\ \A j \in DOMAIN dispatch_result : ~C7_SameDocument(dispatch_result[j])

(***************************************************************************)
(* C8.  The legacy-layout dispatch attempts the strategies in the fixed    *)
(* order Type1, Type2, Type4, Type3; it stops at the first strategy whose  *)
(* extract_and_process_meetings result is not empty and invokes no later   *)
(* strategy after it; a strategy whose requires_panel_name() is true is    *)
(* not invoked at all when no panel name was supplied (Type3, which does   *)
(* not require one, is); and when every strategy returns empty the         *)
(* dispatch ends with an empty result.                                     *)
(***************************************************************************)
\* the strategies among the first n of the order that are invoked for the
\* supplied panel name
C8_Invoked(n) ==
    SelectSeq(SubSeq(dispatch_order, 1, n),
              LAMBDA s : s = "Type3" \/ panel_name # <<>>)

C8_Terminated == next_strategy > Len(dispatch_order)

C9_Type2Pages ==
    { Page("type2", m) : m \in {x \in Meetings : x.date = T_Jan15_2024} }

C9_Type2Page == html_content \in C9_Type2Pages /\ panel_name = T_Council

\* the Type2 extractor returned one meeting for each of the two years
C9_Type2FindsEveryYear ==
    \A i \in DOMAIN attempts :
        (C9_Type2Page /\ attempts[i].strategy = "Type2") =>
            /\ Len(attempts[i].result) = 2
            /\ attempts[i].result[1].asset_name = SplitWords(T_RegularMeeting)
            /\ attempts[i].result[2].asset_name = SplitWords(T_SpecialSession)

C9_Type1EmptyType2AllYears ==
    /\ \A i \in DOMAIN attempts :
           (C9_Type2Page /\ attempts[i].strategy = "Type1") =>
               attempts[i].result = <<>>
    /\ C9_Type2FindsEveryYear

(***************************************************************************)
(* The keyword parameters of each platform's Site.scrape, and how a call   *)
(* with keyword arguments binds to them.                                   *)
(***************************************************************************)
\* the standardized parameter set, with the values the interface tests pass
StandardParameters ==
    {"start_date", "end_date", "download", "cache", "file_size", "asset_list"}

TestValue(parameter, download) ==
    CASE parameter = "start_date" -> "2023-01-01"
      [] parameter = "end_date"   -> "2023-01-31"
      [] parameter = "download"   -> download
      [] parameter = "cache"      -> TRUE
      [] parameter = "file_size"  -> "10.5"
      [] parameter = "asset_list" -> <<"agenda", "minutes">>

\* a signature: the named keyword parameters with their defaults, and
\* whether a **kwargs parameter takes the rest
CivicPlus_scrape ==
    [defaults    |-> [start_date |-> NULL, end_date |-> NULL, cache |-> FALSE,
                      download |-> FALSE, file_size |-> NULL,
                      asset_list |-> NULL],
     var_keyword |-> FALSE,
     downloads   |-> TRUE]

\* scrape(self, **kwargs): _scrape_rss and _scrape_html read no key of
\* kwargs and never download
Granicus_scrape ==
    [defaults    |-> [p \in {} |-> NULL],
     var_keyword |-> TRUE,
     downloads   |-> FALSE]

Legistar_scrape ==
    [defaults    |-> [start_date |-> NULL, end_date |-> NULL,
                      download |-> FALSE, cache |-> FALSE, file_size |-> NULL,
                      asset_list |-> NULL],
     var_keyword |-> FALSE,
     downloads   |-> TRUE]

CivicClerk_scrape ==
    [defaults    |-> [download |-> TRUE],
     var_keyword |-> FALSE,
     downloads   |-> TRUE]

\* the BoardDocs site, which takes the standardized signature
BoardDocs_scrape ==
    [defaults    |-> [start_date |-> NULL, end_date |-> NULL,
                      download |-> FALSE, cache |-> FALSE, file_size |-> NULL,
                      asset_list |-> NULL],
     var_keyword |-> FALSE,
     downloads   |-> TRUE]

SitePlatforms == {"CivicPlus", "Granicus", "Legistar", "BoardDocs", "CivicClerk"}

scrape_signature(platform) ==
    CASE platform = "CivicPlus"  -> CivicPlus_scrape
      [] platform = "Granicus"   -> Granicus_scrape
      [] platform = "Legistar"   -> Legistar_scrape
      [] platform = "BoardDocs"  -> BoardDocs_scrape
      [] platform = "CivicClerk" -> CivicClerk_scrape

\* Python's binding of a call's keyword arguments: an argument no parameter
\* takes raises TypeError, an absent argument takes its default
TypeError == "TypeError"

BindKeywords(signature, kwargs) ==
    IF ~signature.var_keyword
       /\ ~(DOMAIN kwargs \subseteq DOMAIN signature.defaults)
    THEN [raised |-> TypeError, arguments |-> [p \in {} |-> NULL]]
    ELSE [raised    |-> NULL,
          arguments |-> [p \in DOMAIN signature.defaults \cup DOMAIN kwargs |->
                            IF p \in DOMAIN kwargs THEN kwargs[p]
                            ELSE signature.defaults[p]]]

\* whether the call goes on to download the assets it found
Downloads(signature, bound) ==
    /\ bound.raised = NULL
    /\ signature.downloads
    /\ "download" \in DOMAIN bound.arguments
    /\ bound.arguments["download"] = TRUE

InitSignature ==
    /\ comp = "signature"
    /\ now = 1
    /\ dateutil_ok = TRUE
    /\ TransformIdle
    /\ AssetsIdle
    /\ LegacyIdle
    /\ scrape_calls = <<>>
    /\ RequestIdle

\* site.scrape(**kwargs) on a site of one of the five platforms, with any
\* part of the standardized parameter set
CallScrape ==
    /\ comp = "signature"
    /\ Len(scrape_calls) < MaxCalls
    /\ \E platform \in SitePlatforms, given \in SUBSET StandardParameters,
          download \in BOOLEAN :
           \E kwargs \in {[p \in given |-> TestValue(p, download)]} :
           \E bound \in {BindKeywords(scrape_signature(platform), kwargs)} :
               scrape_calls' = Append(scrape_calls,
                   [platform  |-> platform,
                    kwargs    |-> kwargs,
                    raised    |-> bound.raised,
                    downloads |-> Downloads(scrape_signature(platform),
                                            bound)])
    /\ UNCHANGED <<comp, now, dateutil_ok, transform_vars, asset_vars,
                   legacy_vars, request_vars>>

NextSignature == CallScrape

SpecSignature == InitSignature /\ [][NextSignature]_vars

(***************************************************************************)
(* C10.  Every platform's scrape (CivicPlus, Granicus, Legistar,           *)
(* BoardDocs, CivicClerk) accepts the whole standardized parameter set     *)
(* (start_date, end_date, download, cache, file_size, asset_list), each    *)
(* optional, without raising on a parameter it ignores, and does not       *)
(* download unless download is given as true.                              *)
(***************************************************************************)
C10_StandardSignature ==
    \A i \in DOMAIN scrape_calls :
        /\ scrape_calls[i].raised = NULL
        /\ "download" \notin DOMAIN scrape_calls[i].kwargs
               => ~scrape_calls[i].downloads

(***************************************************************************)
(* Scrapes with asset_list, file_size and download: what is returned and   *)
(* what is downloaded (base/site.py, civic_plus/site.py, legistar/site.py, *)
(* granicus/site.py).                                                      *)
(***************************************************************************)
MiB == 1048576          \* bytes per megabyte (base/site.py:130)
Absent == -1            \* no content-length header (civic_plus/site.py:180)

Members(s) == {s[i] : i \in DOMAIN s}

\* ASSET_TYPE_MAPPINGS (base/constants.py:18-45): the standard asset type of
\* a platform's asset type
ASSET_TYPE_MAPPINGS(asset_type) ==
    CASE asset_type = "Agenda"        -> "agenda"
      [] asset_type = "Minutes"       -> "minutes"
      [] asset_type = "Agenda Packet" -> "packet"
      [] asset_type = "Video"         -> "video"
      [] OTHER                        -> asset_type

\* Site._mb_to_bytes (base/site.py:119-130) of a size that is not None
_mb_to_bytes(size_mb) == size_mb * MiB

\* the response headers of requests.head(asset.url): the content-length by
\* standard asset type, Absent when the server sends none
HeadLength(head, asset) == head[ASSET_TYPE_MAPPINGS(asset.asset_type)]

\* asset.size_mb > file_size, size_mb being the content length in megabytes
\* and None when the length is not known
SizeExceeds(asset, file_size) ==
    /\ asset.content_length # Absent
    /\ asset.content_length # 0
    /\ asset.content_length > _mb_to_bytes(file_size)

\* Site._skippable (base/site.py:95-117); file_size 0 and asset_list <<>>
\* stand for None, which the code tells apart by truth value only
_skippable(asset, file_size, asset_list) ==
    \/ file_size # 0 /\ SizeExceeds(asset, file_size)
    \/ asset_list # <<>> /\ asset.asset_type \notin Members(asset_list)

\* Site._download_assets (base/site.py:74-93): the assets downloaded
_download_assets(assets, file_size, asset_list) ==
    SelectSeq(assets, LAMBDA asset : ~_skippable(asset, file_size, asset_list))

\* what a scrape did: the exception it raised (NULL for none), the
\* collection it returned and the assets it downloaded
Outcome(raised, returned, downloaded) ==
    [raised |-> raised, returned |-> returned, downloaded |-> downloaded]

\* civic_plus Site.scrape (site.py:97-116) with the HEAD of
\* _build_asset_collection (site.py:176-182)
CivicPlus_scrape_with(metadata, head, download, file_size, asset_list) ==
    With(_build_asset_collection(metadata, CivicPlusUrl, "townz"),
         LAMBDA built :
             With([i \in DOMAIN built |->
                      built[i] @@ [content_length |-> HeadLength(head, built[i])]],
                  LAMBDA assets :
                      Outcome(NULL, assets,
                              IF download
                              THEN _download_assets(assets, file_size, asset_list)
                              ELSE <<>>)))

\* granicus Site.scrape on a feed (site.py:47-91): kwargs is passed on and
\* read nowhere
Granicus_scrape_with(entries, head, download, file_size, asset_list) ==
    Outcome(NULL, _scrape_rss(entries, "sacramento", ClockNow(1)), <<>>)

\* Site._skippable_event (legistar/site.py:271-305) with file_size and
\* download: "skip", "keep", or the TypeError of float(None) when download
\* is set and the HEAD response has no content-length (site.py:179-181, 303)
Legistar_skippable_event(asset, start_date, end_date, file_size, download, head) ==
    IF _skippable_event(asset, start_date, end_date) THEN "skip"
    ELSE IF file_size # 0 /\ download
         THEN (IF HeadLength(head, asset) = Absent THEN "TypeError"
               ELSE IF HeadLength(head, asset) > _mb_to_bytes(file_size)
                    THEN "skip"
                    ELSE "keep")
         ELSE "keep"

\* event[asset_type] of Site._create_asset (legistar/site.py:201): the cell
\* under that column label
LegistarCell(event, asset_type) ==
    IF asset_type = "Agenda" THEN event.agenda ELSE event.minutes

LegistarColumns == {"Agenda", "Minutes"}

\* the assets Site.scrape creates (legistar/site.py:127-134), each with the
\* verdict of _skippable_event on it (site.py:136-139)
LegistarCandidates(evs, asset_types, start, end, file_size, download, head) ==
    ConcatMap(evs, LAMBDA event :
        ConcatMap(asset_types, LAMBDA asset_type :
            With(LegistarAsset(event, asset_type,
                               LegistarCell(event, asset_type),
                               LegistarUrl.host[1], "City Y"),
                 LAMBDA created :
                     [i \in DOMAIN created |->
                         [asset   |-> created[i] @@ [content_length |->
                                          IF download
                                          THEN HeadLength(head, created[i])
                                          ELSE Absent],
                          verdict |-> Legistar_skippable_event(
                                          created[i], start, end, file_size,
                                          download, head)]])))

\* legistar Site.scrape (site.py:77-146) with all its parameters
Legistar_scrape_with(evs, head, download, file_size, asset_list) ==
    With(IF asset_list # <<>> THEN asset_list ELSE <<"Agenda", "Minutes">>,
         LAMBDA asset_types :
    IF \E i \in DOMAIN evs : LegistarRaises(evs[i])
    THEN Outcome("Exception", <<>>, <<>>)
    ELSE IF evs # <<>> /\ ~(Members(asset_types) \subseteq LegistarColumns)
    THEN Outcome("KeyError", <<>>, <<>>)
    ELSE With(LegistarCandidates(evs, asset_types, Date(2024, 1, 1),
                                 Date(2024, 12, 31), file_size, download, head),
              LAMBDA candidates :
        IF \E i \in DOMAIN candidates : candidates[i].verdict = "TypeError"
        THEN Outcome("TypeError", <<>>, <<>>)
        ELSE With(ConcatMap(candidates, LAMBDA c :
                      IF c.verdict = "keep" THEN <<c.asset>> ELSE <<>>),
                  LAMBDA assets :
                      Outcome(NULL, assets,
                              IF download
                              THEN _download_assets(assets, file_size,
                                                    asset_types)
                              ELSE <<>>))))

(***************************************************************************)
(* scrape(download, file_size, asset_list) of the three extractors that    *)
(* are in the package with their filters.  The site content and the        *)
(* content-length each asset type's HEAD response carries are the          *)
(* environment; file_size 0 and asset_list <<>> stand for None.            *)
(***************************************************************************)
FilterPlatforms == {"CivicPlus", "Granicus", "Legistar"}

ContentLengths == {Absent, MiB, MiB + 1, 5 * MiB + 1}

Heads == [{"agenda", "minutes"} -> ContentLengths]

FileSizes == {0, 1, 5}

AssetLists == {<<>>, <<"agenda">>, <<"minutes">>, <<"agenda", "minutes">>,
               <<"Agenda">>, <<"Minutes">>}

DatedLegistarEvents == {e \in LegistarEvents : e.agenda = PdfA /\ e.time_info # <<>>}

SiteContents(platform) ==
    CASE platform = "CivicPlus" -> SeqUpTo(CivicPlusRows, MaxItems)
      [] platform = "Granicus"  -> SeqUpTo({e \in RssEntries : e.published = "ok"},
                                           MaxItems)
      [] platform = "Legistar"  -> SeqUpTo(DatedLegistarEvents, MaxItems)

ScrapeRequest(platform, content, head, download, file_size, asset_list) ==
    [platform |-> platform, content |-> content, head |-> head,
     download |-> download, file_size |-> file_size, asset_list |-> asset_list]

InitDownload ==
    /\ comp = "download"
    /\ now = 1
    /\ dateutil_ok = TRUE
    /\ TransformIdle
    /\ AssetsIdle
    /\ LegacyIdle
    /\ SignatureIdle
    /\ \E platform \in FilterPlatforms, head \in Heads, download \in BOOLEAN,
          file_size \in FileSizes, asset_list \in AssetLists :
           \E content \in SiteContents(platform) :
               request = ScrapeRequest(platform, content, head, download,
                                       file_size, asset_list)
    /\ outcomes = <<>>
    /\ asset_collection = <<>>
    /\ runner_result = <<>>

\* site.scrape(download=..., file_size=..., asset_list=...) on a CivicPlus site
FilteredScrapeCivicPlus ==
    /\ comp = "download"
    /\ request.platform = "CivicPlus"
    /\ Len(outcomes) < MaxRuns
    /\ outcomes' = Append(outcomes,
           CivicPlus_scrape_with(request.content, request.head, request.download,
                                 request.file_size, request.asset_list))
    /\ UNCHANGED <<comp, now, dateutil_ok, transform_vars, asset_vars,
                   legacy_vars, signature_vars, request,
                   asset_collection, runner_result>>

\* the same call on a Granicus site
FilteredScrapeGranicus ==
    /\ comp = "download"
    /\ request.platform = "Granicus"
    /\ Len(outcomes) < MaxRuns
    /\ outcomes' = Append(outcomes,
           Granicus_scrape_with(request.content, request.head, request.download,
                                request.file_size, request.asset_list))
    /\ UNCHANGED <<comp, now, dateutil_ok, transform_vars, asset_vars,
                   legacy_vars, signature_vars, request,
                   asset_collection, runner_result>>

\* the same call on a Legistar site
FilteredScrapeLegistar ==
    /\ comp = "download"
    /\ request.platform = "Legistar"
    /\ Len(outcomes) < MaxRuns
    /\ outcomes' = Append(outcomes,
           Legistar_scrape_with(request.content, request.head, request.download,
                                request.file_size, request.asset_list))
    /\ UNCHANGED <<comp, now, dateutil_ok, transform_vars, asset_vars,
                   legacy_vars, signature_vars, request,
                   asset_collection, runner_result>>

NextDownload == FilteredScrapeCivicPlus \/ FilteredScrapeGranicus \/ FilteredScrapeLegistar

SpecDownload == InitDownload /\ [][NextDownload]_vars

\* the standardized name of an asset type (base/constants.py)
Standardized(types) == {ASSET_TYPE_MAPPINGS(t) : t \in types}

\* C11: whenever scrape was given an asset_list and returned, every Asset of
\* the returned collection has a standardized asset_type that is a member of
\* the asset_list, on every platform and with or without download.
C11_ReturnedTypesInAssetList ==
    \A i \in DOMAIN outcomes :
        (request.asset_list # <<>> /\ outcomes[i].raised = NULL)
        => \A k \in DOMAIN outcomes[i].returned :
               ASSET_TYPE_MAPPINGS(outcomes[i].returned[k].asset_type)
                   \in Standardized(Members(request.asset_list))

\* the size/type filter as it is described: keep an asset exactly when its
\* type is in asset_list (if given) and its content-length, when known, is
\* at most file_size megabytes
KeptByFilter(asset, file_size, asset_list) ==
    /\ asset_list = <<>> \/ asset.asset_type \in Members(asset_list)
    /\ \/ file_size = 0
       \/ asset.content_length = Absent
       \/ asset.content_length <= file_size * MiB

\* C12 (base Site._skippable): the assets the download step keeps are
\* exactly those in asset_list whose known content-length fits file_size.
C12_BaseFilterKeeps ==
    \A i \in DOMAIN outcomes :
        (request.platform = "CivicPlus" /\ request.download)
        => outcomes[i].downloaded
               = SelectSeq(outcomes[i].returned, LAMBDA asset :
                     KeptByFilter(asset, request.file_size, request.asset_list))

\* C12: the size/type filter never raises on an asset whose content-length
\* is unknown and never filters it out by size, in base Site._skippable and
\* in Legistar's _skippable_event with download and file_size both set.
C12_UnknownLengthKept ==
    /\ C12_BaseFilterKeeps
    /\ \A i \in DOMAIN outcomes :
        (/\ request.platform = "Legistar"
         /\ request.download
         /\ request.file_size # 0
         /\ request.asset_list \in {<<>>, <<"Agenda">>}
         /\ request.content # <<>>
         /\ \A j \in DOMAIN request.content : ~LegistarRaises(request.content[j])
         /\ request.head["agenda"] = Absent)
        => /\ outcomes[i].raised = NULL
           /\ \E k \in DOMAIN outcomes[i].returned :
                  outcomes[i].returned[k].asset_type = "agenda"

(***************************************************************************)
(* runner.py: Runner.scrape over a list of site URLs.  A URL is the        *)
(* sequence of its words and separators; re.search for a word is the       *)
(* occurrence of that word in the sequence.  Which platform really hosts   *)
(* the site, and what the site does when it is constructed and scraped,    *)
(* are the environment.                                                    *)
(***************************************************************************)
MaxSites == 2      \* URLs in site_urls

HostedUrl(platform, text) == [platform |-> platform, text |-> text]

U_CivicPlus == HostedUrl("CivicPlus",
    <<"https", "://", "ca", "-", "townz", ".", "civicplus", ".", "com", "/",
      "AgendaCenter">>)
U_AgendaCenter == HostedUrl("CivicPlus",
    <<"https", "://", "www", ".", "townz", ".", "gov", "/", "AgendaCenter">>)
U_Granicus == HostedUrl("Granicus",
    <<"https", "://", "sacramento", ".", "granicus", ".", "com", "/",
      "ViewPublisher", ".", "php">>)
U_GranicusLegistar == HostedUrl("Granicus",
    <<"https", "://", "cityy", ".", "granicus", ".", "com", "/", "legistar">>)
U_BoardDocs == HostedUrl("BoardDocs",
    <<"https", "://", "go", ".", "boarddocs", ".", "com", "/", "ca", "/",
      "townz">>)
U_Legistar == HostedUrl("Legistar",
    <<"https", "://", "cityy", ".", "legistar", ".", "com", "/", "Calendar",
      ".", "aspx">>)
U_CivicClerk == HostedUrl("CivicClerk",
    <<"https", "://", "townx", ".", "api", ".", "civicclerk", ".", "com">>)
U_Unknown == HostedUrl("none",
    <<"https", "://", "www", ".", "example", ".", "com", "/", "meetings">>)

HostedUrls == {U_CivicPlus, U_AgendaCenter, U_Granicus, U_GranicusLegistar,
             U_BoardDocs, U_Legistar, U_CivicClerk, U_Unknown}

\* re.search(r"(a|b)", url) for words a, b
re_search(words, text) == \E i \in DOMAIN text : text[i] \in words

ScraperError == "ScraperError"

\* Runner._get_site_class_name (runner.py:131-142)
_get_site_class_name(url) ==
    IF re_search({"civicplus", "AgendaCenter"}, url) THEN "CivicPlusSite"
    ELSE IF re_search({"granicus", "granicusid"}, url) THEN "GranicusSite"
    ELSE IF re_search({"boarddocs"}, url) THEN "BoardDocsSite"
    ELSE IF re_search({"legistar"}, url) THEN "LegistarSite"
    ELSE ScraperError

class_to_module == {"CivicPlusSite", "GranicusSite", "BoardDocsSite",
                    "LegistarSite"}

\* Runner._get_site_class (runner.py:110-129): the class, named by its
\* class name, or ScraperError
_get_site_class(url) ==
    IF _get_site_class_name(url) \notin class_to_module THEN ScraperError
    ELSE _get_site_class_name(url)

\* what a site does when Runner.scrape constructs and scrapes it: raise in
\* the constructor, raise in scrape, or return a collection of n assets
SiteBehaviour(raises, assets) == [raises |-> raises, assets |-> assets]

SiteBehaviours == {SiteBehaviour("__init__", 0), SiteBehaviour("scrape", 0)}
                  \cup {SiteBehaviour(NULL, n) : n \in 0..2}

\* the collection the i-th site returns
SiteCollection(i, n) == [k \in 1..n |-> <<i, k>>]

\* a variant of the try body in which a failing site empties the collection
RunnerTry_reset(collection, i, url, behaviour) ==
    IF _get_site_class(url) = ScraperError \/ behaviour.raises # NULL
    THEN [raised |-> "Exception", collection |-> <<>>]
    ELSE [raised |-> NULL,
          collection |-> collection \o SiteCollection(i, behaviour.assets)]

\* the try body of the loop of Runner.scrape (runner.py:72-98) for the
\* i-th URL: the error caught, or NULL, and the collection after it
RunnerTry(collection, i, url, behaviour) ==
    IF _get_site_class(url) = ScraperError
    THEN [raised |-> ScraperError, collection |-> collection]
    ELSE IF behaviour.raises # NULL
    THEN [raised |-> "Exception", collection |-> collection]
    ELSE [raised |-> NULL,
          collection |-> collection \o SiteCollection(i, behaviour.assets)]

InitRunner ==
    /\ comp = "runner"
    /\ now = 1
    /\ dateutil_ok = TRUE
    /\ TransformIdle
    /\ AssetsIdle
    /\ LegacyIdle
    /\ SignatureIdle
    /\ \E site_urls \in SeqUpTo(HostedUrls, MaxSites) :
           \E sites \in [DOMAIN site_urls -> SiteBehaviours] :
               request = [site_urls |-> site_urls, sites |-> sites]
    /\ outcomes = <<>>
    /\ asset_collection = <<>>
    /\ runner_result = <<>>

\* one pass of "for url in site_urls" (runner.py:71-101): the try body and
\* the except clause that logs and continues
RunnerSite ==
    /\ comp = "runner"
    /\ runner_result = <<>>
    /\ Len(outcomes) < Len(request.site_urls)
    /\ \E i \in {Len(outcomes) + 1} :
       \E tried_site \in {RunnerTry(asset_collection, i,
                                    request.site_urls[i].text,
                                    request.sites[i])} :
           /\ outcomes' = Append(outcomes,
                  [url        |-> request.site_urls[i],
                   class_name |-> _get_site_class(request.site_urls[i].text),
                   logged     |-> tried_site.raised])
           /\ asset_collection' = tried_site.collection
    /\ UNCHANGED <<comp, now, dateutil_ok, transform_vars, asset_vars,
                   legacy_vars, signature_vars, request, runner_result>>

\* the end of Runner.scrape (runner.py:103-108): the CSV is written and the
\* collection is returned
RunnerReturn ==
    /\ comp = "runner"
    /\ runner_result = <<>>
    /\ Len(outcomes) = Len(request.site_urls)
    /\ runner_result' = <<[raised |-> NULL, returned |-> asset_collection]>>
    /\ UNCHANGED <<comp, now, dateutil_ok, transform_vars, asset_vars,
                   legacy_vars, signature_vars, request, outcomes,
                   asset_collection>>

NextRunner == RunnerSite \/ RunnerReturn

SpecRunner == InitRunner /\ [][NextRunner]_vars

\* the i-th requested site is constructed and scraped without an exception
SiteSucceeds(i) ==
    /\ _get_site_class_name(request.site_urls[i].text) # ScraperError
    /\ request.sites[i].raises = NULL

\* C13: when Runner.scrape returns, every site of the list was visited,
\* each site whose construction or scrape raised was logged and skipped,
\* and the returned collection is the concatenation, in list order, of the
\* collections of the sites that succeeded.
C13_RunnerSkipsFailedSites ==
    (comp = "runner" /\ runner_result # <<>>)
    => /\ Len(outcomes) = Len(request.site_urls)
       /\ \A i \in DOMAIN outcomes :
              (outcomes[i].logged # NULL) <=> ~SiteSucceeds(i)
       /\ runner_result[1].raised = NULL
       /\ runner_result[1].returned
              = ConcatMap([i \in DOMAIN request.site_urls |-> i], LAMBDA i :
                    IF SiteSucceeds(i)
                    THEN SiteCollection(i, request.sites[i].assets)
                    ELSE <<>>)

\* Runner.scrape has returned after a site raised and a later site gave assets
C13_LaterSiteScraped ==
    /\ comp = "runner"
    /\ runner_result # <<>>
    /\ Len(request.site_urls) = 2
    /\ request.sites[1].raises = "scrape"
    /\ SiteSucceeds(2)
    /\ request.sites[2].assets = 2
    /\ Len(runner_result[1].returned) = 2

\* C14: when a requested URL matches no URL-pattern rule, Runner.scrape ends
\* by raising the unsupported-site ScraperError to its caller.
C14_UnsupportedSitePropagates ==
    (/\ comp = "runner"
     /\ runner_result # <<>>
     /\ \E i \in DOMAIN request.site_urls :
            _get_site_class_name(request.site_urls[i].text) = ScraperError)
    => runner_result[1].raised = ScraperError

SupportedPlatforms == {"CivicPlus", "Granicus", "Legistar", "BoardDocs",
                       "CivicClerk"}

\* C15: every URL of a site hosted by one of the five supported platforms is
\* dispatched to that platform's extractor class.
C15_SupportedPlatformsDispatch ==
    comp = "runner"
    => \A i \in DOMAIN outcomes :
           outcomes[i].url.platform \in SupportedPlatforms
           => outcomes[i].class_name = outcomes[i].url.platform \o "Site"

(***************************************************************************)
(* The extractors' scrape on a network that may fail.  The answer to the   *)
(* page or feed request ("get") and to each per-asset HEAD request is a    *)
(* status code or a transport failure; the batch of records the page       *)
(* carries may hold malformed ones.                                        *)
(***************************************************************************)
NetworkFailures == {"ConnectionError", "Timeout"}

Responses == {"200", "404", "500"} \cup NetworkFailures

HeadResponses == {"200", "404", "Timeout"}

\* a metadata row the parser produced without title, date or type
MalformedRow ==
    [url_path |-> Url(<<>>, "/AgendaCenter/ViewFile/Agenda/_03012024-9", <<>>),
     committee_name |-> "City Council", meeting_id |-> <<"_", "03012024-9">>]

RowKeys == {"url_path", "committee_name", "meeting_id", "meeting_date",
            "meeting_title", "asset_type"}

\* granicus Site._scrape_rss (site.py:66-91): feedparser.parse gives no
\* entries for a feed it could not fetch
_scrape_rss_response(get, entries) ==
    IF get # "200" THEN Outcome(NULL, <<>>, <<>>)
    ELSE Outcome(NULL, _scrape_rss(entries, "sacramento", ClockNow(1)), <<>>)

\* granicus Site._scrape_html (site.py:94-135): RequestException, which
\* raise_for_status raises for a 4xx or 5xx answer, gives an empty collection
_scrape_html_response(get, items) ==
    IF get # "200" THEN Outcome(NULL, <<>>, <<>>)
    ELSE Outcome(NULL, _scrape_html(items, GranicusHtmlUrl, "sacramento"), <<>>)

\* what the i-th pass of the loop of _build_asset_collection raises
\* (civic_plus/site.py:160-183): KeyError for a missing key, the transport
\* failure of requests.head, or NULL
RowRaises(row, head) ==
    IF ~(RowKeys \subseteq DOMAIN row) THEN "KeyError"
    ELSE IF head \in NetworkFailures THEN head
    ELSE NULL

\* civic_plus Site.scrape (site.py:97-116) with _search (site.py:129-142) and
\* _build_asset_collection (site.py:150-184); the page of a 4xx or 5xx
\* answer lists no file
CivicPlus_scrape_response(get, metadata, heads) ==
    IF get \in NetworkFailures THEN Outcome(get, <<>>, <<>>)
    ELSE IF get # "200" THEN Outcome(NULL, <<>>, <<>>)
    ELSE IF \E i \in DOMAIN metadata : RowRaises(metadata[i], heads[i]) # NULL
    THEN Outcome(RowRaises(metadata[CHOOSE i \in DOMAIN metadata :
                               /\ RowRaises(metadata[i], heads[i]) # NULL
                               /\ \A j \in 1..(i - 1) :
                                      RowRaises(metadata[j], heads[j]) = NULL],
                           heads[CHOOSE i \in DOMAIN metadata :
                               /\ RowRaises(metadata[i], heads[i]) # NULL
                               /\ \A j \in 1..(i - 1) :
                                      RowRaises(metadata[j], heads[j]) = NULL]),
                 <<>>, <<>>)
    ELSE Outcome(NULL, _build_asset_collection(metadata, CivicPlusUrl, "townz"),
                 <<>>)

\* CivicClerkSite.scrape (site.py:895-952) with events (site.py:808-880) and
\* _fetch_meetings_from_api (site.py:437-532): every request is inside a
\* try, and a failed one leaves no meeting
CivicClerk_scrape_response(get, api) ==
    IF get # "200" THEN Outcome(NULL, <<>>, <<>>)
    ELSE Outcome(NULL,
                 CivicClerkAssets(events(CivicClerkContent(api, <<>>, <<>>),
                                         <<>>),
                                  CivicClerkUrl.host[1], CivicClerkUrl,
                                  "Town X", ClockNow(1)),
                 <<>>)

Extractors == {"granicus_rss", "granicus_html", "civic_plus", "civic_clerk"}

Batches(extractor) ==
    CASE extractor = "granicus_rss"  -> SeqUpTo(RssEntries, MaxItems)
      [] extractor = "granicus_html" -> SeqUpTo(HtmlLis, MaxItems)
      [] extractor = "civic_plus"    ->
             SeqUpTo(CivicPlusRows \cup {MalformedRow}, MaxItems)
      [] extractor = "civic_clerk"   -> SeqUpTo(ApiEvents, MaxItems)

\* extractor.scrape() on a site that answers get, heads and carries records
scrape_response(extractor, get, records, heads) ==
    CASE extractor = "granicus_rss"  -> _scrape_rss_response(get, records)
      [] extractor = "granicus_html" -> _scrape_html_response(get, records)
      [] extractor = "civic_plus"    ->
             CivicPlus_scrape_response(get, records, heads)
      [] extractor = "civic_clerk"   -> CivicClerk_scrape_response(get, records)

InitFetch ==
    /\ comp = "fetch"
    /\ now = 1
    /\ dateutil_ok = TRUE
    /\ TransformIdle
    /\ AssetsIdle
    /\ LegacyIdle
    /\ SignatureIdle
    /\ \E extractor \in Extractors, get \in Responses :
       \E records \in Batches(extractor) :
       \E heads \in [DOMAIN records -> IF extractor = "civic_plus"
                                       THEN HeadResponses ELSE {"200"}] :
           request = [extractor |-> extractor, get |-> get,
                      records |-> records, heads |-> heads]
    /\ outcomes = <<>>
    /\ asset_collection = <<>>
    /\ runner_result = <<>>

\* a scrape ends: what it returned or raised is recorded
Fetched(outcome) ==
    /\ Len(outcomes) < MaxRuns
    /\ outcomes' = Append(outcomes, outcome)
    /\ UNCHANGED <<comp, now, dateutil_ok, transform_vars, asset_vars,
                   legacy_vars, signature_vars, request, asset_collection,
                   runner_result>>

\* granicus Site.scrape on a feed URL
FetchGranicusRss ==
    /\ comp = "fetch"
    /\ request.extractor = "granicus_rss"
    /\ Fetched(_scrape_rss_response(request.get, request.records))

\* granicus Site.scrape on a ViewPublisher.php URL
FetchGranicusHtml ==
    /\ comp = "fetch"
    /\ request.extractor = "granicus_html"
    /\ Fetched(_scrape_html_response(request.get, request.records))

\* civic_plus Site.scrape
FetchCivicPlus ==
    /\ comp = "fetch"
    /\ request.extractor = "civic_plus"
    /\ Fetched(CivicPlus_scrape_response(request.get, request.records,
                                          request.heads))

\* CivicClerkSite.scrape
FetchCivicClerk ==
    /\ comp = "fetch"
    /\ request.extractor = "civic_clerk"
    /\ Fetched(CivicClerk_scrape_response(request.get, request.records))

NextFetch ==
    \/ FetchGranicusRss
    \/ FetchGranicusHtml
    \/ FetchCivicPlus
    \/ FetchCivicClerk

SpecFetch == InitFetch /\ [][NextFetch]_vars

\* C16: when the page request or a per-asset HEAD request fails (transport
\* failure, timeout, non-2xx), scrape does not raise; when the page request
\* fails it returns an empty collection.
C16_FetchFailureNeverRaises ==
    comp = "fetch"
    => \A i \in DOMAIN outcomes :
           /\ (request.get # "200"
               \/ \E k \in DOMAIN request.heads : request.heads[k] # "200")
              => outcomes[i].raised \notin NetworkFailures
           /\ request.get # "200"
              => outcomes[i].raised = NULL /\ outcomes[i].returned = <<>>

\* what the extractor returns for one record on its own, nothing if it raises
AloneGives(extractor, record) ==
    With(scrape_response(extractor, "200", <<record>>, <<"200">>),
         LAMBDA alone : IF alone.raised = NULL THEN alone.returned ELSE <<>>)

\* C17: on a page that was fetched, scrape does not raise on a malformed
\* record and returns, in order, what every record of the batch gives on
\* its own; a record that gives nothing takes no other record with it.
C17_MalformedRecordSkipped ==
    (/\ comp = "fetch"
     /\ request.get = "200"
     /\ \A k \in DOMAIN request.heads : request.heads[k] = "200")
    => \A i \in DOMAIN outcomes :
           /\ outcomes[i].raised = NULL
           /\ outcomes[i].returned
                  = ConcatMap(request.records, LAMBDA record :
                        AloneGives(request.extractor, record))

(***************************************************************************)
(* The constructors: Site(url, place, state_or_province).  The URL is its  *)
(* host labels, each a sequence of words and hyphens, and its path; place  *)
(* and state are strings, NULL for None.                                   *)
(***************************************************************************)
SiteAddress(labels, path) == [labels |-> labels, path |-> path]

RECURSIVE JoinLabels(_)
\* the host name as words and separators
JoinLabels(labels) ==
    IF labels = <<>> THEN <<>>
    ELSE IF Len(labels) = 1 THEN labels[1]
    ELSE labels[1] \o <<".">> \o JoinLabels(Tail(labels))

\* the URL string, as its words and separators
UrlText(address) == <<"https", "://">> \o JoinLabels(address.labels) \o address.path

SiteAddresses == {
    SiteAddress(<<<<"ca", "-", "townz">>, <<"civicplus">>, <<"com">>>>,
                <<"/", "AgendaCenter">>),
    SiteAddress(<<<<"sacramento">>, <<"granicus">>, <<"com">>>>,
                <<"/", "ViewPublisher", ".", "php">>),
    SiteAddress(<<<<"cityy">>, <<"legistar">>, <<"com">>>>, <<>>),
    SiteAddress(<<<<"townx">>, <<"api">>, <<"civicclerk">>, <<"com">>>>, <<>>),
    SiteAddress(<<<<"example">>, <<"com">>>>, <<>>) }

Separators == {"://", ".", "-", "/"}

\* \w{2}: a word of two characters
TwoCharacters == {"ca", "go"}

\* the positions where the regex of the state matches: (?<=//)\w{2}(?=-)
StateMatches(text) ==
    {i \in DOMAIN text : /\ i > 1 /\ i < Len(text)
                         /\ text[i - 1] = "://"
                         /\ text[i] \in TwoCharacters
                         /\ text[i + 1] = "-"}

\* the positions where the regex of the place matches: (?<=-)\w+(?=\.)
PlaceMatches(text) ==
    {i \in DOMAIN text : /\ i > 1 /\ i < Len(text)
                         /\ text[i - 1] = "-"
                         /\ text[i] \notin Separators
                         /\ text[i + 1] = "."}

\* civic_plus Site._get_asset_metadata (site.py:193-202) with the matches of
\* its regex in the link
_get_asset_metadata(matches, asset_link) ==
    IF matches # {}
    THEN asset_link[CHOOSE i \in matches : \A j \in matches : i <= j]
    ELSE "no_data"

\* base Site.__init__ (base/site.py:24-44): the fields as they are stored
Site__init__(place, state_or_province) ==
    [place |-> place, state_or_province |-> state_or_province]

\* civic_plus Site.__init__ (site.py:24-69)
CivicPlus__init__(address, place, state_or_province) ==
    Site__init__(
        IF place # NULL THEN place
        ELSE _get_asset_metadata(PlaceMatches(UrlText(address)), UrlText(address)),
        IF state_or_province # NULL THEN state_or_province
        ELSE _get_asset_metadata(StateMatches(UrlText(address)), UrlText(address)))

\* granicus Site.__init__ (site.py:26-45)
Granicus__init__(address, place, state_or_province) ==
    Site__init__(
        IF place # NULL THEN place
        ELSE IF Len(address.labels) > 1 /\ address.labels[2] = <<"granicus">>
        THEN JoinWords(address.labels[1], "")
        ELSE NULL,
        state_or_province)

\* legistar Site.__init__ (site.py:21-70)
Legistar__init__(address, place, state_or_province) ==
    Site__init__(place, state_or_province)

\* CivicClerkSite.__init__ (civic_clerk/site.py:24-73)
CivicClerk__init__(address, place, state_or_province) ==
    Site__init__(place, state_or_province)

InitConstruct ==
    /\ comp = "construct"
    /\ now = 1
    /\ dateutil_ok = TRUE
    /\ TransformIdle
    /\ AssetsIdle
    /\ LegacyIdle
    /\ SignatureIdle
    /\ \E platform \in {"CivicPlus", "Granicus", "Legistar", "CivicClerk"},
          address \in SiteAddresses, place \in {NULL, "testcity"},
          state_or_province \in {NULL, "ca"} :
           request = [platform |-> platform, url |-> address, place |-> place,
                      state_or_province |-> state_or_province]
    /\ outcomes = <<>>
    /\ asset_collection = <<>>
    /\ runner_result = <<>>

\* the object is constructed: its place and state are recorded
Constructed(site) ==
    /\ Len(outcomes) < MaxRuns
    /\ outcomes' = Append(outcomes, site)
    /\ UNCHANGED <<comp, now, dateutil_ok, transform_vars, asset_vars,
                   legacy_vars, signature_vars, request, asset_collection,
                   runner_result>>

\* CivicPlusSite(url, place=..., state_or_province=...)
ConstructCivicPlus ==
    /\ comp = "construct"
    /\ request.platform = "CivicPlus"
    /\ Constructed(CivicPlus__init__(request.url, request.place,
                                     request.state_or_province))

\* GranicusSite(url, place=..., state_or_province=...)
ConstructGranicus ==
    /\ comp = "construct"
    /\ request.platform = "Granicus"
    /\ Constructed(Granicus__init__(request.url, request.place,
                                    request.state_or_province))

\* LegistarSite(url, place=..., state_or_province=...)
ConstructLegistar ==
    /\ comp = "construct"
    /\ request.platform = "Legistar"
    /\ Constructed(Legistar__init__(request.url, request.place,
                                    request.state_or_province))

\* CivicClerkSite(url, place=..., state_or_province=...)
ConstructCivicClerk ==
    /\ comp = "construct"
    /\ request.platform = "CivicClerk"
    /\ Constructed(CivicClerk__init__(request.url, request.place,
                                      request.state_or_province))

NextConstruct ==
    \/ ConstructCivicPlus
    \/ ConstructGranicus
    \/ ConstructLegistar
    \/ ConstructCivicClerk

SpecConstruct == InitConstruct /\ [][NextConstruct]_vars

\* the value is a word of the URL or one of its host labels
TakenFromUrl(value, address) ==
    \/ value \in Members(UrlText(address)) \ Separators
    \/ \E k \in DOMAIN address.labels : value = JoinWords(address.labels[k], "")

\* C18: a constructor stores a supplied place / state_or_province unchanged;
\* when none is supplied the stored value is one taken from the URL or is
\* null, never a placeholder string.
C18_PlaceStoredOrExtracted ==
    comp = "construct"
    => \A i \in DOMAIN outcomes :
           /\ request.place # NULL => outcomes[i].place = request.place
           /\ request.state_or_province # NULL
              => outcomes[i].state_or_province = request.state_or_province
           /\ request.place = NULL
              => \/ outcomes[i].place = NULL
                 \/ TakenFromUrl(outcomes[i].place, request.url)
           /\ request.state_or_province = NULL
              => \/ outcomes[i].state_or_province = NULL
                 \/ TakenFromUrl(outcomes[i].state_or_province, request.url)

\* the raw records the strategy of the i-th direct call extracted
RawRecords(i) ==
    _extract_meeting_details_internal(attempts[i].strategy, html_content,
                                      panel_name)

\* the links of the page whose anchor text contains "packet"
PacketLinks == find_all(html_content, LAMBDA e : IsLink(e) /\ TextHas(e.text, "packet"))

\* C19: in the raw records of every legacy-layout strategy, agenda_url is
\* never a link whose anchor text contains "packet".
C19_PacketNeverAgenda ==
    comp = "legacy"
    => \A i \in DOMAIN attempts :
           \A k \in DOMAIN RawRecords(i) :
               \A p \in DOMAIN PacketLinks :
                   RawRecords(i)[k].agenda_url # PacketLinks[p].href

\* the four link fields of a raw record
LinkFields(r) == <<r.agenda_url, r.minutes_url, r.packet_url, r.video_url>>

\* C20: in every raw record of a legacy-layout strategy the links that are
\* set among agenda_url, minutes_url, packet_url, video_url are pairwise
\* distinct, on a page where every link has a URL of its own.
\* no two links of the page point to the same URL
OneLinkPerUrl ==
    \A a, b \in DOMAIN find_all(html_content, IsLink) :
        a # b => find_all(html_content, IsLink)[a].href
                     # find_all(html_content, IsLink)[b].href

C20_LinkFieldsDistinct ==
    (comp = "legacy" /\ OneLinkPerUrl)
    => \A i \in DOMAIN attempts :
           \A k \in DOMAIN RawRecords(i) :
               \A a, b \in 1..4 :
                   (a # b /\ LinkFields(RawRecords(i)[k])[a] # NoUrl)
                   => LinkFields(RawRecords(i)[k])[a]
                          # LinkFields(RawRecords(i)[k])[b]

\* the page shows a meeting whose "Agenda" link and whose "Minutes" link
\* point to the same URL
CollisionOn(m) ==
    /\ m.agenda_links # <<>> /\ m.minutes_links # <<>>
    /\ TextHas(m.agenda_links[1].text, "agenda")
    /\ TextHas(m.minutes_links[1].text, "minutes")
    /\ m.agenda_links[1].href = m.minutes_links[1].href

\* what the collision pass is to leave of a record whose agenda and minutes
\* were both the URL u
Resolved(r, u) ==
    IF HrefHas(u, "minutesviewer.php") /\ ~HrefHas(u, "agendaviewer.php")
    THEN r.agenda_url = NoUrl /\ r.minutes_url = u
    ELSE r.agenda_url = u /\ r.minutes_url = NoUrl

\* C21: in Type2 and Type3, when the links chosen for agenda and for minutes
\* are the same URL, exactly one is kept: agenda is cleared only when the URL
\* is a minutes viewer and not an agenda viewer, otherwise minutes is cleared.
C21_CollisionKeepsOne ==
    comp = "legacy"
    => \A i \in DOMAIN attempts :
           attempts[i].strategy \in {"Type2", "Type3"}
           => \A m \in {x \in Meetings : CollisionOn(x)} :
                  (\E layout \in Layouts : html_content = Page(layout, m))
                  => \A k \in DOMAIN RawRecords(i) :
                         m.agenda_links[1].href
                             \in {RawRecords(i)[k].agenda_url,
                                  RawRecords(i)[k].minutes_url}
                         => Resolved(RawRecords(i)[k], m.agenda_links[1].href)

(***************************************************************************)
(* CivicClerk: endpoint discovery, the API stage and events().             *)
(* A JSON value is J(type, items, members): a list has items, a dict has   *)
(* members (a function from its keys to JSON values).                      *)
(***************************************************************************)
J(type, items, members) == [type |-> type, items |-> items, members |-> members]
JNull        == J("null", <<>>, <<>>)
JString      == J("str", <<>>, <<>>)
NotJson      == J("notjson", <<>>, <<>>)      \* response.json() raises ValueError
JList(items) == J("list", items, <<>>)
JDict(members) == J("dict", <<>>, members)

isinstance(data, type) == data.type = type
has_key(data, key)     == data.type = "dict" /\ key \in DOMAIN data.members

\* bool(x) of a JSON value
Truthy(data) ==
    CASE data.type = "list" -> data.items # <<>>
      [] data.type = "dict" -> DOMAIN data.members # {}
      [] data.type = "str"  -> TRUE
      [] OTHER              -> FALSE

\* CivicClerkSite._validate_meetings_response (site.py:393-414)
_validate_meetings_response(data) ==
    IF data.type = "null" THEN FALSE
    ELSE \/ /\ isinstance(data, "list") /\ Len(data.items) > 0
            /\ \E i \in DOMAIN data.items :
                   {"name", "date", "id"} \cap DOMAIN data.items[i] # {}
         \/ /\ isinstance(data, "dict")
            /\ \/ /\ has_key(data, "items")
                  /\ isinstance(data.members["items"], "list")
                  /\ Len(data.members["items"].items) > 0
               \/ /\ has_key(data, "meetings")
                  /\ isinstance(data.members["meetings"], "list")
                  /\ Len(data.members["meetings"].items) > 0
               \/ /\ has_key(data, "data")
                  /\ isinstance(data.members["data"], "dict")
                  /\ has_key(data.members["data"], "meetings")
               \/ /\ has_key(data, "data")
                  /\ isinstance(data.members["data"], "list")
                  /\ Len(data.members["data"].items) > 0

\* what _fetch_meetings_from_api takes from the body of the meetings
\* endpoint (site.py:475-499); meetings starts as the empty list
meetings_of_response(data) ==
    IF isinstance(data, "list") THEN data
    ELSE IF isinstance(data, "dict")
    THEN IF has_key(data, "items") /\ isinstance(data.members["items"], "list")
         THEN data.members["items"]
         ELSE IF has_key(data, "meetings")
                 /\ isinstance(data.members["meetings"], "list")
         THEN data.members["meetings"]
         ELSE IF has_key(data, "data")
         THEN IF isinstance(data.members["data"], "list")
              THEN data.members["data"]
              ELSE IF isinstance(data.members["data"], "dict")
                      /\ has_key(data.members["data"], "meetings")
              THEN data.members["data"].members["meetings"]
              ELSE JList(<<>>)
         ELSE JList(<<>>)
    ELSE JList(<<>>)

\* the same for the body of the alternate events endpoint (site.py:512-524)
RECURSIVE alternate_of_response(_, _)
alternate_of_response(data, keys) ==
    IF isinstance(data, "list") THEN data
    ELSE IF ~isinstance(data, "dict") \/ keys = <<>> THEN JList(<<>>)
    ELSE IF has_key(data, keys[1])
            /\ (\/ isinstance(data.members[keys[1]], "list")
                \/ has_key(data.members[keys[1]], "items"))
    THEN IF isinstance(data.members[keys[1]], "list")
         THEN data.members[keys[1]]
         ELSE data.members[keys[1]].members["items"]
    ELSE alternate_of_response(data, Tail(keys))

\* an endpoint is Url(host labels, path, <<>>).  The substring tests of the
\* code are on the path: no host here holds "/meetings", "/events",
\* "/documents" or "/attachments"
EndpointHas(endpoint, word) ==
    CASE word = "/meetings" ->
             endpoint.path \in {"/api/meetings", "/api/v1/meetings",
                                "/v1/meetings", "/meetings"}
      [] word = "/events" -> endpoint.path \in {"/api/events", "/v1/events"}
      [] word = "/documents" -> endpoint.path \in {"/v1/documents"}
      [] OTHER -> FALSE

\* str.replace('[TENANT]', self.civicclerk_instance) on a URL
ReplaceTenant(endpoint, instance) ==
    Url([i \in DOMAIN endpoint.host |->
             IF endpoint.host[i] = "[TENANT]" THEN instance
             ELSE endpoint.host[i]],
        endpoint.path, endpoint.query)

\* the object's fields that discovery and events() use; api_endpoints is the
\* dict, a function from some of "meetings", "events", "documents"
ClerkObject(url, api_base, api_endpoints) ==
    [url |-> url,
     base_url |-> Url(url.host, "", <<>>),
     civicclerk_instance |-> url.host[1],
     is_portal |-> Len(url.host) >= 3 /\ url.host[2] = "portal",
     api_base |-> api_base,
     api_endpoints |-> api_endpoints]

TenantApi(site) == <<site.civicclerk_instance, "api", "civicclerk", "com">>

\* dict.get(key): NoUrl for None
EndpointGet(site, key) ==
    IF key \in DOMAIN site.api_endpoints THEN site.api_endpoints[key] ELSE NoUrl

\* what the site serves: main is the main page (status "200", "404" or
\* "error" for a request that raises; window is the apiUrl of the window
\* configuration and js the configurations _analyze_js_file finds in the
\* bundles, in order); live is the set of endpoints that answer 200, each
\* with the body data; dom and calendar are the answers of the page scan and
\* of /calendar
MainPage(status, window, js) == [status |-> status, window |-> window, js |-> js]
JsConfig(apiUrl, endpoints)  == [apiUrl |-> apiUrl, endpoints |-> endpoints]
Served(main, live, data, dom, calendar) ==
    [main |-> main, live |-> live, data |-> data, dom |-> dom,
     calendar |-> calendar]

\* session.get(endpoint).json() when the status is 200, NotJson otherwise
\* (every other outcome leaves the caller's result unchanged)
GetJson(served, endpoint) ==
    IF endpoint \in served.live THEN served.data ELSE NotJson

\* CivicClerkSite._construct_api_endpoints (site.py:373-391)
_construct_api_endpoints(site) ==
    LET api_base == Url(TenantApi(site), "/v1", <<>>)
    IN [site EXCEPT
          !.api_base = api_base,
          !.api_endpoints =
              [k \in {"meetings", "events", "documents"} |->
                  Url(api_base.host, api_base.path \o "/" \o k, <<>>)]]

api_paths == <<"/api/meetings", "/api/v1/meetings", "/v1/meetings",
               "/api/events", "/meetings">>

api_hosts(site) ==
    <<site.base_url.host, TenantApi(site), <<"api", "civicclerk", "com">>>>

\* the endpoints _detect_api_from_network requests, in its order: hosts
\* outside, paths inside, then the special case of a portal site
ProbeOrder(site) ==
    LET hosts == api_hosts(site)
        At(n) == Url(hosts[((n - 1) \div Len(api_paths)) + 1],
                     api_paths[((n - 1) % Len(api_paths)) + 1], <<>>)
    IN [n \in 1..(Len(hosts) * Len(api_paths)) |-> At(n)]
       \o (IF site.is_portal
           THEN <<Url(TenantApi(site), "/v1/meetings", <<>>)>>
           ELSE <<>>)

\* CivicClerkSite._detect_api_from_network (site.py:289-371): the first
\* probed endpoint whose body _validate_meetings_response accepts becomes
\* the meetings endpoint
_detect_api_from_network(site, served) ==
    LET order == ProbeOrder(site)
        hits  == {n \in DOMAIN order :
                    /\ GetJson(served, order[n]) # NotJson
                    /\ _validate_meetings_response(GetJson(served, order[n]))}
    IN IF hits = {} THEN site
       ELSE LET first == CHOOSE n \in hits : \A k \in hits : n <= k
            IN [site EXCEPT !.api_endpoints =
                                ("meetings" :> order[first]) @@ @]

\* the endpoints of one bundle configuration, stored by the kind their URL
\* shows (site.py:146-160); a later endpoint of a kind replaces an earlier one
RECURSIVE SaveEndpoints(_, _, _)
SaveEndpoints(api_endpoints, endpoints, instance) ==
    IF endpoints = <<>> THEN api_endpoints
    ELSE LET endpoint == ReplaceTenant(endpoints[1], instance)
             saved ==
                 IF EndpointHas(endpoint, "/meetings")
                 THEN ("meetings" :> endpoint) @@ api_endpoints
                 ELSE IF EndpointHas(endpoint, "/documents")
                         \/ EndpointHas(endpoint, "/attachments")
                 THEN ("documents" :> endpoint) @@ api_endpoints
                 ELSE IF EndpointHas(endpoint, "/events")
                 THEN ("events" :> endpoint) @@ api_endpoints
                 ELSE api_endpoints
         IN SaveEndpoints(saved, Tail(endpoints), instance)

\* the loop over the bundles (site.py:124-160)
RECURSIVE AnalyzeBundles(_, _)
AnalyzeBundles(site, js) ==
    IF js = <<>> THEN site
    ELSE LET js_config == js[1]
             found == js_config.apiUrl # NoUrl \/ js_config.endpoints # <<>>
             api_base ==
                 IF js_config.apiUrl # NoUrl /\ site.api_base = NoUrl
                 THEN ReplaceTenant(js_config.apiUrl, site.civicclerk_instance)
                 ELSE site.api_base
         IN AnalyzeBundles(
                IF found
                THEN [site EXCEPT
                        !.api_base = api_base,
                        !.api_endpoints =
                            SaveEndpoints(@, js_config.endpoints,
                                          site.civicclerk_instance)]
                ELSE site,
                Tail(js))

\* the analysis of the main page and of its bundles (site.py:101-160)
AnalyzePage(site, served) ==
    AnalyzeBundles([site EXCEPT !.api_base =
                       IF served.main.window # NoUrl
                       THEN ReplaceTenant(served.main.window,
                                          site.civicclerk_instance)
                       ELSE @],
                   served.main.js)

\* CivicClerkSite._discover_api_configuration (site.py:90-172)
_discover_api_configuration(site, served) ==
    IF served.main.status = "error" THEN _construct_api_endpoints(site)
    ELSE IF served.main.status # "200" THEN site
    ELSE LET bundled == AnalyzePage(site, served)
             probed  == IF DOMAIN bundled.api_endpoints = {}
                        THEN _detect_api_from_network(bundled, served)
                        ELSE bundled
         IN IF probed.api_base = NoUrl /\ EndpointGet(probed, "meetings") = NoUrl
            THEN _construct_api_endpoints(probed)
            ELSE probed

\* CivicClerkSite.__init__ (site.py:24-73) as far as the endpoints go
CivicClerkSite(url, served) ==
    _discover_api_configuration(ClerkObject(url, NoUrl, <<>>), served)

\* CivicClerkSite._fetch_meetings_from_api (site.py:437-532): the value it
\* returns, a JSON value (the empty list when nothing was found)
_fetch_meetings_from_api(site, served) ==
    IF EndpointGet(site, "meetings") = NoUrl THEN JList(<<>>)
    ELSE LET data == GetJson(served, site.api_endpoints["meetings"])
             meetings == IF data = NotJson THEN JList(<<>>)
                         ELSE meetings_of_response(data)
             other == IF "events" \in DOMAIN site.api_endpoints
                      THEN GetJson(served, site.api_endpoints["events"])
                      ELSE NotJson
         IN IF ~Truthy(meetings) /\ "events" \in DOMAIN site.api_endpoints
               /\ other # NotJson
            THEN alternate_of_response(other,
                                       <<"items", "events", "data", "meetings">>)
            ELSE meetings

\* the answer to a page request: status "200" with the cards found in it,
\* another status, or "error" for a request that raises
PageAnswer(status, elements) == [status |-> status, elements |-> elements]

\* the DOM stage of events(): _fetch_meetings_from_dom with its request
\* (site.py:668-753)
DomStage(served, uuids) ==
    IF served.dom.status = "200"
    THEN JList(_fetch_meetings_from_dom(served.dom.elements, uuids))
    ELSE JList(<<>>)

\* the /calendar stage of events() (site.py:824-876)
CalendarStage(served, uuids) ==
    IF served.calendar.status = "200"
    THEN JList(CalendarMeetings(served.calendar.elements, uuids))
    ELSE JList(<<>>)

\* one stage of a run of events(): its name and what it returned
Stage(name, result) == [name |-> name, result |-> result]

\* a run of the generator: the stages it went through, in order, and the
\* batches it yielded, in order
Run(stages, yielded) == [stages |-> stages, yielded |-> yielded]

\* events() as it would be if the page scan were also run after a successful
\* API stage and its meetings added to the batch
CivicClerk_events_merged(site, served, uuids) ==
    LET api_meetings == _fetch_meetings_from_api(site, served)
        dom_meetings == DomStage(served, uuids)
        calendar_meetings == CalendarStage(served, uuids)
        api == Stage("api", api_meetings)
        dom == Stage("dom", dom_meetings)
        calendar == Stage("calendar", calendar_meetings)
    IN IF Truthy(api_meetings)
       THEN Run(<<api, dom>>,
                <<JList(api_meetings.items \o dom_meetings.items)>>)
       ELSE IF Truthy(dom_meetings) THEN Run(<<api, dom>>, <<dom_meetings>>)
       ELSE IF Truthy(calendar_meetings)
       THEN Run(<<api, dom, calendar>>, <<calendar_meetings>>)
       ELSE Run(<<api, dom, calendar>>, <<JList(<<>>)>>)

\* CivicClerkSite.events (site.py:808-880), run to exhaustion
CivicClerk_events(site, served, uuids) ==
    LET api_meetings == _fetch_meetings_from_api(site, served)
        dom_meetings == DomStage(served, uuids)
        calendar_meetings == CalendarStage(served, uuids)
        api == Stage("api", api_meetings)
        dom == Stage("dom", dom_meetings)
        calendar == Stage("calendar", calendar_meetings)
    IN IF Truthy(api_meetings) THEN Run(<<api>>, <<api_meetings>>)
       ELSE IF Truthy(dom_meetings) THEN Run(<<api, dom>>, <<dom_meetings>>)
       ELSE IF Truthy(calendar_meetings)
       THEN Run(<<api, dom, calendar>>, <<calendar_meetings>>)
       ELSE Run(<<api, dom, calendar>>, <<JList(<<>>)>>)

(***************************************************************************)
(* CivicClerk: inputs and the state machine.  request holds the URL and    *)
(* the object (built FALSE until __init__ has run), raw_content what the   *)
(* site serves at the time of the latest call, outcomes the runs of        *)
(* events(), one per scrape call.                                          *)
(***************************************************************************)
ClerkPortalUrl == Url(<<"townx", "portal", "civicclerk", "com">>, "/", <<>>)
ClerkUrls == {CivicClerkUrl, ClerkPortalUrl}

TenantTemplate == <<"[TENANT]", "api", "civicclerk", "com">>
TownxApi       == <<"townx", "api", "civicclerk", "com">>

MainPages == {
    MainPage("error", NoUrl, <<>>),
    MainPage("404", NoUrl, <<>>),
    MainPage("200", NoUrl, <<>>),
    MainPage("200", Url(TenantTemplate, "/v1", <<>>), <<>>),
    MainPage("200", NoUrl,
             <<JsConfig(NoUrl, <<Url(TenantTemplate, "/v1/meetings", <<>>),
                                 Url(TenantTemplate, "/v1/events", <<>>)>>)>>),
    MainPage("200", NoUrl,
             <<JsConfig(Url(TenantTemplate, "/v1", <<>>),
                        <<Url(TenantTemplate, "/v1/events", <<>>)>>)>>) }

LiveSets == {
    {},
    {Url(ClerkPortalUrl.host, "/api/meetings", <<>>)},
    {Url(TownxApi, "/v1/meetings", <<>>), Url(TownxApi, "/v1/events", <<>>)} }

Meeting101 == Event("101", "Council Meeting", T_IsoT1830, "City Council", <<>>)

Payloads == {
    JList(<<>>),
    JList(<<Meeting101>>),
    JDict("items" :> JList(<<Meeting101>>)),
    JDict(("items" :> JList(<<>>)) @@ ("meetings" :> JList(<<Meeting101>>))),
    JDict("data" :> JDict("meetings" :> JList(<<>>))),
    JDict("data" :> JDict("meetings" :> JList(<<Meeting101>>))),
    JDict("events" :> JList(<<Meeting101>>)) }

DomAnswers == {
    PageAnswer("error", <<>>),
    PageAnswer("200", <<>>),
    PageAnswer("200", <<DomElement("m-12", "Council Meeting", TRUE, T_Iso)>>) }

CalendarAnswers == {
    PageAnswer("error", <<>>),
    PageAnswer("404", <<>>),
    PageAnswer("200", <<DomElement("", "Council Meeting", FALSE, <<>>)>>),
    PageAnswer("200", <<DomElement("", NULL, TRUE, T_January15)>>) }

\* what the site may serve while the object is constructed: every discovery
\* case (the page scans are not requested by __init__)
ConstructContents ==
    {Served(main, live, data, PageAnswer("200", <<>>), PageAnswer("404", <<>>)) :
        main \in MainPages, live \in LiveSets, data \in Payloads}

\* what the site may serve during a scrape call (the main page's
\* configuration is not read by scrape): every API case with page scans that
\* find nothing, and every page-scan case with no API
ScrapeContents ==
    {Served(MainPage("200", NoUrl, <<>>), live, data,
            PageAnswer("200", <<>>), PageAnswer("404", <<>>)) :
        live \in LiveSets, data \in Payloads}
    \cup {Served(MainPage("200", NoUrl, <<>>), {}, JList(<<>>), dom, calendar) :
            dom \in DomAnswers, calendar \in CalendarAnswers}

ClerkContents == ConstructContents \cup ScrapeContents

UuidDraws == {<<"uuid-a", "uuid-b">>, <<"uuid-b", "uuid-a">>}

InitClerk ==
    /\ comp = "clerk"
    /\ now = 1
    /\ dateutil_ok = TRUE
    /\ TransformIdle
    /\ LegacyIdle
    /\ SignatureIdle
    /\ asset_runs = <<>>
    /\ raw_content = <<>>
    /\ \E url \in ClerkUrls :
           request = [url |-> url, built |-> FALSE,
                      site |-> ClerkObject(url, NoUrl, <<>>)]
    /\ outcomes = <<>>
    /\ asset_collection = <<>>
    /\ runner_result = <<>>

\* CivicClerkSite(url): __init__ runs discovery against what the site serves
ClerkConstruct ==
    /\ comp = "clerk"
    /\ ~request.built
    /\ \E served \in ConstructContents :
           /\ raw_content' = served
           /\ request' = [request EXCEPT
                            !.built = TRUE,
                            !.site = CivicClerkSite(request.url, served)]
    /\ UNCHANGED <<comp, now, dateutil_ok, transform_vars, asset_runs,
                   legacy_vars, signature_vars, outcomes, asset_collection,
                   runner_result>>

\* site.scrape(): its loop over events() (site.py:899), against what the
\* site serves at that time
ClerkScrape ==
    /\ comp = "clerk"
    /\ request.built
    /\ Len(outcomes) < MaxRuns
    /\ \E served \in ScrapeContents, uuids \in UuidDraws :
           /\ raw_content' = served
           /\ outcomes' = Append(outcomes,
                  [uuids |-> uuids,
                   run |-> CivicClerk_events(request.site, served, uuids)])
    /\ UNCHANGED <<comp, now, dateutil_ok, transform_vars, asset_runs,
                   legacy_vars, signature_vars, request, asset_collection,
                   runner_result>>

NextClerk ==
    \/ ClerkConstruct
    \/ ClerkScrape

SpecClerk == InitClerk /\ [][NextClerk]_vars

StageNames == <<"api", "dom", "calendar">>

\* the run is a waterfall: its stages are an initial part of API, DOM,
\* calendar; a stage is entered only when every stage before it returned
\* nothing; one batch is yielded, the result of the last stage entered when
\* that found meetings and the empty batch otherwise
Waterfall(run) ==
    /\ Len(run.stages) \in 1..3
    /\ \A k \in DOMAIN run.stages :
           /\ run.stages[k].name = StageNames[k]
           /\ \A j \in 1..(k - 1) : ~Truthy(run.stages[j].result)
    /\ Len(run.yielded) = 1
    /\ LET last == run.stages[Len(run.stages)]
       IN IF Truthy(last.result) THEN run.yielded[1] = last.result
          ELSE Len(run.stages) = 3 /\ run.yielded[1] = JList(<<>>)

\* C22: events() is a strict waterfall: the DOM scan runs only if the API
\* stage returned no meetings, the calendar scan only if API and DOM both
\* returned none, stages are never merged, and exactly one batch is yielded
\* on every path (the empty batch when every stage is exhausted).
C22_EventsIsWaterfall ==
    comp = "clerk"
    => /\ \A i \in DOMAIN outcomes : Waterfall(outcomes[i].run)
       /\ outcomes # <<>>
          => LET latest == outcomes[Len(outcomes)]
             IN /\ latest.run.stages[1].result
                       = _fetch_meetings_from_api(request.site, raw_content)
                /\ Len(latest.run.stages) >= 2
                   => latest.run.stages[2].result
                          = DomStage(raw_content, latest.uuids)
                /\ Len(latest.run.stages) = 3
                   => latest.run.stages[3].result
                          = CalendarStage(raw_content, latest.uuids)

\* a run that fell through to the calendar page and yielded its meetings,
\* and a run that stopped at the API stage, on the same object
C22_AllStagesSeen ==
    /\ comp = "clerk"
    /\ \E i \in DOMAIN outcomes :
           /\ Len(outcomes[i].run.stages) = 3
           /\ Truthy(outcomes[i].run.yielded[1])
    /\ \E i \in DOMAIN outcomes :
           /\ Len(outcomes[i].run.stages) = 1
           /\ Truthy(outcomes[i].run.yielded[1])

\* the object as the page and bundle analysis of its construction left it
\* (raw_content is what was served then, until the first scrape call)
Analyzed == AnalyzePage(ClerkObject(request.url, NoUrl, <<>>), raw_content)

\* C23: discovery is staged: probing runs only if the page and bundle
\* analysis found no endpoints; when the stages end with no meetings endpoint
\* the endpoints are constructed from the tenant name, so a meetings endpoint
\* is always set after discovery; construction never replaces a meetings
\* endpoint an earlier stage discovered.
C23_MeetingsEndpointAlwaysSet ==
    (comp = "clerk" /\ request.built)
    => /\ EndpointGet(request.site, "meetings") # NoUrl
       /\ (outcomes = <<>> /\ raw_content.main.status = "200"
           /\ DOMAIN Analyzed.api_endpoints # {})
          => /\ EndpointGet(Analyzed, "meetings") # NoUrl
                => EndpointGet(request.site, "meetings")
                       = EndpointGet(Analyzed, "meetings")
             /\ EndpointGet(Analyzed, "meetings") = NoUrl
                => request.site.api_endpoints
                       = _construct_api_endpoints(Analyzed).api_endpoints

\* C24: in Legistar's scrape an Asset is built for an (event, asset type)
\* pair only if the event exposes a URL for that type; a pair with no entry
\* or a non-URL entry is skipped and scrape goes on without raising, for
\* every asset_list the caller may pass (the lowercase standardized names
\* included).
C24_PairWithoutUrlSkipped ==
    comp = "download"
    => \A i \in DOMAIN outcomes :
        (/\ request.platform = "Legistar"
         /\ ~request.download
         /\ \A j \in DOMAIN request.content : ~LegistarRaises(request.content[j]))
        => /\ outcomes[i].raised = NULL
           /\ \A k \in DOMAIN outcomes[i].returned :
                  outcomes[i].returned[k].url # NoUrl

(***************************************************************************)
(* utils.parse_datetime_formats with its timezone argument.  A timezone    *)
(* is NULL for None, a name pytz knows, or a name it does not know.        *)
(***************************************************************************)
KnownTimezones == {"US/Pacific"}

\* tz.localize(dt, is_dst=None) raises NonExistentTimeError for a local time
\* skipped at the start of daylight saving time and AmbiguousTimeError for
\* one repeated at its end (US/Pacific in 2024: 10 March and 3 November)
LocalizeRaises(dt, timezone_str) ==
    /\ timezone_str = "US/Pacific"
    /\ \/ dt.date = Date(2024, 3, 10) /\ dt.time.h = 2
       \/ dt.date = Date(2024, 11, 3) /\ dt.time.h = 1

\* what a call returns or raises: dt is the parsed value, tzinfo the zone it
\* was localized to (NULL for a naive datetime)
Parsed(raised, dt, tzinfo) == [raised |-> raised, dt |-> dt, tzinfo |-> tzinfo]

\* parse_datetime_formats as it would be without the try/except around the
\* localization
parse_datetime_formats_strict(datetime_str, formats, timezone_str) ==
    LET dt == parse_datetime_formats(datetime_str, formats)
    IN IF dt = NoDateTime THEN Parsed("ValueError", NoDateTime, NULL)
       ELSE IF timezone_str = NULL THEN Parsed(NULL, dt, NULL)
       ELSE IF timezone_str \notin KnownTimezones
       THEN Parsed("UnknownTimeZoneError", NoDateTime, NULL)
       ELSE IF LocalizeRaises(dt, timezone_str)
       THEN Parsed("InvalidTimeError", NoDateTime, NULL)
       ELSE Parsed(NULL, dt, timezone_str)

\* utils.parse_datetime_formats (utils.py:35-65) with timezone_str
parse_datetime_formats_in(datetime_str, formats, timezone_str) ==
    LET dt == parse_datetime_formats(datetime_str, formats)
    IN IF dt = NoDateTime THEN Parsed("ValueError", NoDateTime, NULL)
       ELSE IF timezone_str = NULL THEN Parsed(NULL, dt, NULL)
       ELSE IF timezone_str \notin KnownTimezones THEN Parsed(NULL, dt, NULL)
       ELSE IF LocalizeRaises(dt, timezone_str) THEN Parsed(NULL, dt, NULL)
       ELSE Parsed(NULL, dt, timezone_str)

T_SpringForward == <<Num(3, 2), Pn("/"), Num(10, 2), Pn("/"), Num(2024, 4), SP,
                     Num(2, 1), Pn(":"), Num(30, 2), SP, Wd("AM")>>
T_FallBack      == <<Num(11, 2), Pn("/"), Num(3, 2), Pn("/"), Num(2024, 4), SP,
                     Num(1, 1), Pn(":"), Num(30, 2), SP, Wd("AM")>>

DatetimeStrings == {T_Slash630, T_SlashDate, T_SpringForward, T_FallBack,
                    T_Jan15_2024, T_Iso, T_TBD, <<>>}

F_SlashTime == <<"%m", "/", "%d", "/", "%Y", " ", "%I", ":", "%M", " ", "%p">>
F_Slash     == <<"%m", "/", "%d", "/", "%Y">>
F_Long      == <<"%B", " ", "%d", ",", " ", "%Y">>
F_Iso       == <<"%Y", "-", "%m", "-", "%d">>

FormatLists == {<<>>, <<F_Slash>>, <<F_Long, F_SlashTime>>,
                <<F_Slash, F_SlashTime>>, <<F_SlashTime, F_Slash, F_Long>>,
                <<F_Iso, F_Long, F_Slash, F_SlashTime>>}

TimezoneStrings == {NULL, "US/Pacific", "Mars/Olympus"}

InitParse ==
    /\ comp = "parse"
    /\ now = 1
    /\ dateutil_ok = TRUE
    /\ TransformIdle
    /\ AssetsIdle
    /\ LegacyIdle
    /\ SignatureIdle
    /\ \E datetime_str \in DatetimeStrings, formats \in FormatLists,
          timezone_str \in TimezoneStrings :
           request = [datetime_str |-> datetime_str, formats |-> formats,
                      timezone_str |-> timezone_str]
    /\ outcomes = <<>>
    /\ asset_collection = <<>>
    /\ runner_result = <<>>

\* parse_datetime_formats(datetime_str, formats, timezone_str)
ParseDatetimeFormats ==
    /\ comp = "parse"
    /\ Len(outcomes) < MaxRuns
    /\ outcomes' = Append(outcomes,
           parse_datetime_formats_in(request.datetime_str, request.formats,
                                     request.timezone_str))
    /\ UNCHANGED <<comp, now, dateutil_ok, transform_vars, asset_vars,
                   legacy_vars, signature_vars, request, asset_collection,
                   runner_result>>

SpecParse == InitParse /\ [][ParseDatetimeFormats]_vars

\* the formats of the call that parse its string, by position
Matching == {k \in DOMAIN request.formats :
                StrptimeDateTime(request.datetime_str, request.formats[k])
                    # NoDateTime}

\* C25: parse_datetime_formats raises ValueError if and only if no supplied
\* format matches the string; when one matches, an unknown timezone or a
\* failing localization never raises and the naive parsed value is returned;
\* the first matching format in list order determines the result.
C25_RaisesIffNoFormatMatches ==
    comp = "parse"
    => \A i \in DOMAIN outcomes :
        /\ outcomes[i].raised \in {NULL, "ValueError"}
        /\ outcomes[i].raised = "ValueError" <=> Matching = {}
        /\ Matching # {}
           => LET first == CHOOSE k \in Matching : \A j \in Matching : k <= j
                  dt == StrptimeDateTime(request.datetime_str,
                                         request.formats[first])
              IN /\ outcomes[i].dt = dt
                 /\ (\/ request.timezone_str \notin KnownTimezones
                     \/ LocalizeRaises(dt, request.timezone_str))
                    => outcomes[i].tzinfo = NULL

\* a string in the hour skipped by daylight saving time, parsed by the
\* second format of the list, came back naive
C25_GapTimeReturnedNaive ==
    /\ comp = "parse"
    /\ outcomes # <<>>
    /\ request.timezone_str = "US/Pacific"
    /\ Matching # {} /\ 1 \notin Matching
    /\ LocalizeRaises(outcomes[1].dt, request.timezone_str)
    /\ outcomes[1].raised = NULL /\ outcomes[1].tzinfo = NULL

\* the record was standardized from this raw item, at some reading of the
\* clock
StandardizedFrom(r, item) ==
    \E c \in DOMAIN Clocks :
        /\ ItemKept(item, Clocks[c], dateutil_ok)
        /\ r = StandardItem(item, SiteUrl, committee_input, Clocks[c],
                            dateutil_ok)

\* the raw item gives no time: no time field and no time inside its date
NoTimeGiven(item) ==
    item.time = <<>> /\ ~HasTimeInDate(CleanDateStr(item.date))

\* C26: a record whose date parses but whose time is missing is emitted with
\* its date and with time absent, so that it is distinguishable from a record
\* whose source text gives 12:00 AM, which keeps a midnight meeting_time.
C26_MissingTimeIsNotMidnight ==
    comp = "transform"
    => \A j \in DOMAIN std_runs : \A k \in DOMAIN std_runs[j] :
           \A i \in DOMAIN extracted_items :
               (/\ NoTimeGiven(extracted_items[i])
                /\ StandardizedFrom(std_runs[j][k], extracted_items[i]))
               => /\ std_runs[j][k].meeting_date # FormatDate(NoDate)
                  /\ std_runs[j][k].meeting_time
                         # StandardItem([extracted_items[i] EXCEPT
                                            !.time = T_1200AM],
                                        SiteUrl, committee_input, Clocks[1],
                                        dateutil_ok).meeting_time

(***************************************************************************)
(* _parse_date_time on time strings written from an hour, a minute and a   *)
(* meridiem: "h:mm", "h:mm PM", "h PM", "h" and the four digits "hhmm".    *)
(***************************************************************************)
TimeShapes == {"colon", "hour", "military"}

TimeText(hour, minute, meridiem, shape) ==
    LET mer == IF meridiem = "" THEN <<>> ELSE <<SP, Wd(meridiem)>>
        h   == Num(hour, IF hour >= 10 THEN 2 ELSE 1)
    IN CASE shape = "colon" -> <<h, Pn(":"), Num(minute, 2)>> \o mer
         [] shape = "hour" -> <<h>> \o mer
         [] OTHER -> <<Num(hour * 100 + minute, 4)>>

TimeHours     == {0, 1, 7, 11, 12, 13, 23, 24, 25, 99}
TimeMinutes   == {0, 30, 59, 60, 75, 99}
TimeMeridiems == {"", "AM", "PM", "pm"}

TimeRequests ==
    {[hour |-> h, minute |-> m, meridiem |-> p, shape |-> "colon",
      time_str |-> TimeText(h, m, p, "colon")] :
        h \in TimeHours, m \in TimeMinutes, p \in TimeMeridiems}
    \cup {[hour |-> h, minute |-> 0, meridiem |-> p, shape |-> "hour",
           time_str |-> TimeText(h, 0, p, "hour")] :
            h \in TimeHours, p \in TimeMeridiems}
    \cup {[hour |-> h, minute |-> m, meridiem |-> "", shape |-> "military",
           time_str |-> TimeText(h, m, "", "military")] :
            h \in TimeHours, m \in TimeMinutes}

InitTime ==
    /\ comp = "time"
    /\ now = 1
    /\ dateutil_ok = TRUE
    /\ TransformIdle
    /\ AssetsIdle
    /\ LegacyIdle
    /\ SignatureIdle
    /\ request \in TimeRequests
    /\ outcomes = <<>>
    /\ asset_collection = <<>>
    /\ runner_result = <<>>

\* _parse_date_time("1/15/2024", time_str): the time it returns
ParseTime ==
    /\ comp = "time"
    /\ Len(outcomes) < MaxRuns
    /\ outcomes' = Append(outcomes,
           _parse_date_time(T_SlashDate, request.time_str, Clocks[now],
                            dateutil_ok)[2])
    /\ UNCHANGED <<comp, now, dateutil_ok, transform_vars, asset_vars,
                   legacy_vars, signature_vars, request, asset_collection,
                   runner_result>>

SpecTime == InitTime /\ [][ParseTime]_vars

\* C27: the time _parse_date_time returns has hour in 0..23 and minute in
\* 0..59; a string whose digits give an hour above 23 or a minute above 59 is
\* rejected (the default is returned, not a clamped or wrapped value); PM
\* with an hour below 12 adds 12, 12 AM is hour 0, and four military digits
\* such as 1300 give 13:00.
C27_TimeInRangeOrDefault ==
    comp = "time"
    => \A i \in DOMAIN outcomes :
        /\ outcomes[i].h \in 0..23 /\ outcomes[i].m \in 0..59
        /\ (request.hour > 23 \/ request.minute > 59)
           => outcomes[i] = Midnight
        /\ (/\ request.meridiem \in {"PM", "pm"} /\ request.hour \in 1..11
            /\ request.minute <= 59)
           => outcomes[i] = Time(request.hour + 12, request.minute, 0)
        /\ (/\ request.meridiem = "AM" /\ request.hour = 12
            /\ request.minute <= 59)
           => outcomes[i] = Time(0, request.minute, 0)
        /\ (/\ request.shape = "military" /\ request.hour <= 23
            /\ request.minute <= 59)
           => outcomes[i] = Time(request.hour, request.minute, 0)


\* the objects a construction of this URL can give, over everything the site
\* may have served at that time
ClerkObjects == {CivicClerkSite(request.url, served) : served \in ConstructContents}

\* C28: endpoints discovered for a CivicClerk site are not retained across
\* scrape calls on the same object: the outcome of a second scrape call
\* depends only on the content served at that time, not on endpoints
\* discovered during construction or an earlier call.
C28_SecondScrapeDependsOnContentOnly ==
    (comp = "clerk" /\ Len(outcomes) >= 2)
    => \A site \in ClerkObjects :
           outcomes[Len(outcomes)].run
               = CivicClerk_events(site, raw_content,
                                   outcomes[Len(outcomes)].uuids)

\* C29: extract_and_process_meetings returns either None or a non-empty list
\* of standardized records, never an empty list and never an exception: None
\* when raw extraction yields nothing, when standardization drops every raw
\* record, or when extraction or standardization raises; so "the result is
\* truthy" is the success signal of a strategy.
C29_NoneOrNonEmptyList ==
    comp = "legacy"
    => \A i \in DOMAIN attempts :
        /\ ~attempts[i].raised
        /\ attempts[i].none \/ attempts[i].result # <<>>
        /\ attempts[i].none => attempts[i].result = <<>>
        /\ attempts[i].fails # "no" => attempts[i].none
        /\ (attempts[i].fails = "no" /\ RawRecords(i) = <<>>) => attempts[i].none
        /\ ~attempts[i].none
           => \A k \in DOMAIN attempts[i].result :
                  attempts[i].result[k].meeting_date # FormatDate(NoDate)

\* a call whose extraction found raw records, all of them dropped by the
\* standardization, returned None
C29_AllRecordsDropped ==
    /\ comp = "legacy"
    /\ \E i \in DOMAIN attempts :
           /\ attempts[i].fails = "no"
           /\ RawRecords(i) # <<>>
           /\ attempts[i].none

\* the body the object's meetings endpoint serves now, NotJson when it does
\* not answer 200
MeetingsBody ==
    IF EndpointGet(request.site, "meetings") = NoUrl THEN NotJson
    ELSE GetJson(raw_content, request.site.api_endpoints["meetings"])

\* C30: probing and fetching agree on what a meetings payload is: for every
\* JSON payload that _validate_meetings_response accepts, the API stage of
\* events() applied to the same payload extracts a non-empty list of
\* meetings.
C30_AcceptedPayloadGivesMeetings ==
    (comp = "clerk" /\ outcomes # <<>> /\ MeetingsBody # NotJson
     /\ _validate_meetings_response(MeetingsBody))
    => LET api_meetings == outcomes[Len(outcomes)].run.stages[1].result
       IN isinstance(api_meetings, "list") /\ Len(api_meetings.items) > 0
=============================================================================
